---- MODULE Spec2Model ----
(***************************************************************************)
(* Model of the authentication gateway of curate-preservation-api          *)
(* (package server, auth.go): trusted-network matcher, client IP resolver, *)
(* bearer token extractor, identity cache with TTL and background sweep,   *)
(* and the two-call external identity validator; and of the JWT variant of *)
(* the middleware with its role check.                                     *)
(*                                                                         *)
(* Go strings are modelled as sequences of one-character strings, so that  *)
(* strings.Split, strings.ToLower, net.ParseIP and net.ParseCIDR are       *)
(* computed character by character as the library computes them.           *)
(* Time is counted in minutes.                                              *)
(***************************************************************************)
EXTENDS Integers, Sequences, FiniteSets, TLC

VARIABLES now, cache, req, lastSet, jwksCache, mutex, pin, pout

vars == <<now, cache, req, lastSet, jwksCache, mutex, pin, pout>>

(***************************************************************************)
(* Bounds of the model.                                                    *)
(***************************************************************************)
\* number of concurrent inbound requests
NumReqs == 2
\* the clock runs from 0 to MaxTime minutes
MaxTime == 6

(***************************************************************************)
(* Strings.                                                                *)
(***************************************************************************)
Digits == <<"0", "1", "2", "3", "4", "5", "6", "7", "8", "9">>
HexLetters == <<"a", "b", "c", "d", "e", "f">>
Uppers == <<"A", "B", "C", "D", "E", "F", "G", "H", "I", "J", "K", "L", "M",
            "N", "O", "P", "Q", "R", "S", "T", "U", "V", "W", "X", "Y", "Z">>
Lowers == <<"a", "b", "c", "d", "e", "f", "g", "h", "i", "j", "k", "l", "m",
            "n", "o", "p", "q", "r", "s", "t", "u", "v", "w", "x", "y", "z">>

IndexIn(c, seq) == IF \E i \in 1..Len(seq) : seq[i] = c
                   THEN CHOOSE i \in 1..Len(seq) : seq[i] = c
                   ELSE 0

\* unicode.ToLower on one character
ToLowerChar(c) == IF IndexIn(c, Uppers) > 0 THEN Lowers[IndexIn(c, Uppers)] ELSE c

\* strings.ToLower
ToLower(s) == [i \in 1..Len(s) |-> ToLowerChar(s[i])]

\* strings.Contains(s, c) for a one-character separator
ContainsChar(s, c) == \E i \in 1..Len(s) : s[i] = c

\* strings.Index(s, c) for a one-character separator, 1-based, 0 when absent
IndexChar(s, c) == IF ContainsChar(s, c)
                   THEN CHOOSE i \in 1..Len(s) : s[i] = c /\ \A j \in 1..(i-1) : s[j] # c
                   ELSE 0

\* strings.LastIndex(s, c), 1-based, 0 when absent
LastIndexChar(s, c) == IF ContainsChar(s, c)
                       THEN CHOOSE i \in 1..Len(s) : s[i] = c /\ \A j \in (i+1)..Len(s) : s[j] # c
                       ELSE 0

\* strings.Split(s, sep) for a one-character separator: always at least one part
RECURSIVE Split(_, _)
Split(s, sep) ==
    LET i == IndexChar(s, sep)
    IN IF i = 0 THEN <<s>>
       ELSE <<SubSeq(s, 1, i-1)>> \o Split(SubSeq(s, i+1, Len(s)), sep)

IsSpace(c) == c \in {" ", "\t"}

\* strings.TrimSpace
RECURSIVE TrimLeft(_)
TrimLeft(s) == IF Len(s) > 0 /\ IsSpace(s[1]) THEN TrimLeft(Tail(s)) ELSE s
RECURSIVE TrimRight(_)
TrimRight(s) == IF Len(s) > 0 /\ IsSpace(s[Len(s)])
                THEN TrimRight(SubSeq(s, 1, Len(s)-1)) ELSE s
TrimSpace(s) == TrimRight(TrimLeft(s))

(***************************************************************************)
(* Addresses: net.IP is a byte sequence of length 4 or 16, NoIP is nil.    *)
(***************************************************************************)
NoIP == <<>>

IsDigit(c) == IndexIn(c, Digits) > 0
DigitVal(c) == IndexIn(c, Digits) - 1
IsHex(c) == IsDigit(c) \/ IndexIn(ToLowerChar(c), HexLetters) > 0
HexVal(c) == IF IsDigit(c) THEN DigitVal(c) ELSE 9 + IndexIn(ToLowerChar(c), HexLetters)

RECURSIVE DecVal(_)
DecVal(s) == IF Len(s) = 0 THEN 0
             ELSE 10 * DecVal(SubSeq(s, 1, Len(s)-1)) + DigitVal(s[Len(s)])

RECURSIVE HexGroupVal(_)
HexGroupVal(s) == IF Len(s) = 0 THEN 0
                  ELSE 16 * HexGroupVal(SubSeq(s, 1, Len(s)-1)) + HexVal(s[Len(s)])

\* one decimal field of a dotted quad: 1 to 3 digits, no leading zero, at most 255
IsOctet(s) == /\ Len(s) \in 1..3
              /\ \A i \in 1..Len(s) : IsDigit(s[i])
              /\ (Len(s) > 1 => s[1] # "0")
              /\ DecVal(s) <= 255

\* the 4-byte form of a dotted quad, NoIP when it is not one
ParseIPv4(s) ==
    LET parts == Split(s, ".")
    IN IF Len(parts) = 4 /\ \A i \in 1..4 : IsOctet(parts[i])
       THEN [i \in 1..4 |-> DecVal(parts[i])]
       ELSE NoIP

\* one group of an IPv6 address: 1 to 4 hex digits
IsHexGroup(s) == Len(s) \in 1..4 /\ \A i \in 1..Len(s) : IsHex(s[i])

\* the groups of "a:b:c", none for the empty string
Groups(s) == IF Len(s) = 0 THEN <<>> ELSE Split(s, ":")

\* position of the first "::" in s, 0 when absent
EllipsisAt(s) == IF \E i \in 1..(Len(s)-1) : s[i] = ":" /\ s[i+1] = ":"
                 THEN CHOOSE i \in 1..(Len(s)-1) :
                        /\ s[i] = ":" /\ s[i+1] = ":"
                        /\ \A j \in 1..(i-1) : ~(s[j] = ":" /\ s[j+1] = ":")
                 ELSE 0

GroupBytes(groups) ==
    [i \in 1..(2 * Len(groups)) |->
        LET v == HexGroupVal(groups[(i + 1) \div 2])
        IN IF i % 2 = 1 THEN v \div 256 ELSE v % 256]

Zeros(n) == [i \in 1..n |-> 0]

\* the 16-byte form of a textual IPv6 address (hex groups, at most one "::"),
\* NoIP when it is not one
ParseIPv6(s) ==
    LET e == EllipsisAt(s)
    IN IF e = 0
       THEN LET g == Groups(s)
            IN IF Len(g) = 8 /\ \A i \in 1..8 : IsHexGroup(g[i])
               THEN GroupBytes(g) ELSE NoIP
       ELSE LET l == Groups(SubSeq(s, 1, e-1))
                r == Groups(SubSeq(s, e+2, Len(s)))
            IN IF /\ Len(l) + Len(r) <= 7
                  /\ \A i \in 1..Len(l) : IsHexGroup(l[i])
                  /\ \A i \in 1..Len(r) : IsHexGroup(r[i])
               THEN GroupBytes(l) \o Zeros(16 - 2 * (Len(l) + Len(r))) \o GroupBytes(r)
               ELSE NoIP

v4InV6Prefix == <<0, 0, 0, 0, 0, 0, 0, 0, 0, 0, 255, 255>>

\* netip.ParseAddr: the first of "." and ":" in the text selects the family;
\* 4 bytes for a dotted quad, 16 bytes for IPv6 text, NoIP for an error.
\* (IPv6 text with an embedded dotted quad or a zone is outside the model.)
ParseAddr(s) ==
    LET d == IndexChar(s, ".")
        c == IndexChar(s, ":")
    IN IF d > 0 /\ (c = 0 \/ d < c) THEN ParseIPv4(s)
       ELSE IF c > 0 /\ d = 0 THEN ParseIPv6(s)
       ELSE NoIP

\* net.ParseIP: the 16-byte form of either family, NoIP (nil) when unparsable
ParseIP(s) ==
    LET a == ParseAddr(s)
    IN IF Len(a) = 4 THEN v4InV6Prefix \o a ELSE a

\* IP.To4: the 4-byte form of an IPv4 or IPv4-mapped address, NoIP (nil) otherwise
To4(ip) == IF Len(ip) = 4 THEN ip
           ELSE IF Len(ip) = 16 /\ SubSeq(ip, 1, 12) = v4InV6Prefix
                THEN SubSeq(ip, 13, 16) ELSE NoIP

RECURSIVE Pow2(_)
Pow2(n) == IF n = 0 THEN 1 ELSE 2 * Pow2(n - 1)

\* net.CIDRMask(ones, bits) as a byte sequence
CIDRMask(ones, bits) ==
    [i \in 1..(bits \div 8) |->
        LET k == IF ones - 8 * (i - 1) < 0 THEN 0
                 ELSE IF ones - 8 * (i - 1) > 8 THEN 8 ELSE ones - 8 * (i - 1)
        IN 256 - Pow2(8 - k)]

\* b & m for a byte b and a mask byte m of CIDRMask (a run of leading ones)
AndMask(b, m) == b - (b % (256 - m))

\* IP.Mask
MaskIP(ip, mask) == [i \in 1..Len(ip) |-> AndMask(ip[i], mask[i])]

\* a *net.IPNet, NoNet stands for the error return
NoNet == [IP |-> NoIP, Mask |-> <<>>]

\* net.ParseCIDR: address "/" prefix length (dtoi: decimal digits, leading
\* zeros allowed), the network is the masked address
ParseCIDR(s) ==
    LET i == IndexChar(s, "/")
        addr == ParseAddr(SubSeq(s, 1, i-1))
        pfx == SubSeq(s, i+1, Len(s))
        bits == 8 * Len(addr)
    IN IF \/ i = 0
          \/ addr = NoIP
          \/ Len(pfx) = 0
          \/ \E j \in 1..Len(pfx) : ~IsDigit(pfx[j])
          \/ DecVal(pfx) > bits
       THEN NoNet
       ELSE [IP |-> MaskIP(addr, CIDRMask(DecVal(pfx), bits)),
             Mask |-> CIDRMask(DecVal(pfx), bits)]

\* IPNet.Contains
Contains(ipNet, ip0) ==
    LET ip == IF To4(ip0) # NoIP THEN To4(ip0) ELSE ip0
        n == IF To4(ipNet.IP) # NoIP THEN To4(ipNet.IP) ELSE ipNet.IP
        m == IF Len(ipNet.Mask) = 16 /\ Len(n) = 4
             THEN SubSeq(ipNet.Mask, 13, 16) ELSE ipNet.Mask
    IN /\ Len(n) = Len(m)
       /\ Len(ip) = Len(n)
       /\ \A i \in 1..Len(ip) : AndMask(n[i], m[i]) = AndMask(ip[i], m[i])

\* parseIPOrCIDR with a bare address given a 24-bit mask
parseIPOrCIDR_Bare24(ipStr) ==
    IF ContainsChar(ipStr, "/") THEN ParseCIDR(ipStr)
    ELSE LET ip == ParseIP(ipStr)
         IN IF ip = NoIP THEN NoNet
            ELSE [IP |-> ip,
                  Mask |-> IF To4(ip) # NoIP THEN CIDRMask(24, 32) ELSE CIDRMask(24, 128)]

\* parseIPOrCIDR: a CIDR when the text holds "/", else a bare address as /32 or /128
parseIPOrCIDR(ipStr) ==
    IF ContainsChar(ipStr, "/") THEN ParseCIDR(ipStr)
    ELSE LET ip == ParseIP(ipStr)
         IN IF ip = NoIP THEN NoNet
            ELSE [IP |-> ip,
                  Mask |-> IF To4(ip) # NoIP THEN CIDRMask(32, 32) ELSE CIDRMask(128, 128)]

\* isIPTrusted letting an unparsable client address through
isIPTrusted_FailOpen(clientIP, trustedIPs) ==
    IF Len(trustedIPs) = 0 THEN FALSE
    ELSE LET ip == ParseIP(clientIP)
         IN IF ip = NoIP THEN TRUE
            ELSE \E k \in 1..Len(trustedIPs) :
                    /\ parseIPOrCIDR(trustedIPs[k]) # NoNet
                    /\ Contains(parseIPOrCIDR(trustedIPs[k]), ip)

\* isIPTrusted giving up at the first entry that does not parse
isIPTrusted_StopAtInvalid(clientIP, trustedIPs) ==
    IF Len(trustedIPs) = 0 THEN FALSE
    ELSE LET ip == ParseIP(clientIP)
         IN IF ip = NoIP THEN FALSE
            ELSE \E k \in 1..Len(trustedIPs) :
                    /\ \A j \in 1..k : parseIPOrCIDR(trustedIPs[j]) # NoNet
                    /\ Contains(parseIPOrCIDR(trustedIPs[k]), ip)

\* isIPTrusted: the client address parses and some parsable entry contains it
isIPTrusted(clientIP, trustedIPs) ==
    IF Len(trustedIPs) = 0 THEN FALSE
    ELSE LET ip == ParseIP(clientIP)
         IN IF ip = NoIP THEN FALSE
            ELSE \E k \in 1..Len(trustedIPs) :
                    /\ parseIPOrCIDR(trustedIPs[k]) # NoNet
                    /\ Contains(parseIPOrCIDR(trustedIPs[k]), ip)

(***************************************************************************)
(* Client IP resolution.  A request is a record of the three places the    *)
(* address is read from and the Authorization header; an absent header is  *)
(* the empty string, as http.Header.Get returns it.                        *)
(***************************************************************************)
HttpRequest(xff, xri, remoteAddr, auth) ==
    [xff |-> xff, xri |-> xri, remoteAddr |-> remoteAddr, auth |-> auth]

NoRequest == HttpRequest(<<>>, <<>>, <<>>, <<>>)

\* net.SplitHostPort: [ok, host]
SplitHostPort(hostport) ==
    LET i == LastIndexChar(hostport, ":")
        end == IndexChar(hostport, "]")
        Err == [ok |-> FALSE, host |-> <<>>]
    IN IF i = 0 THEN Err
       ELSE IF hostport[1] = "["
            THEN IF end = 0 \/ end + 1 # i THEN Err
                 ELSE IF \/ ContainsChar(SubSeq(hostport, 2, Len(hostport)), "[")
                         \/ ContainsChar(SubSeq(hostport, end + 1, Len(hostport)), "]")
                      THEN Err
                      ELSE [ok |-> TRUE, host |-> SubSeq(hostport, 2, end - 1)]
            ELSE IF \/ ContainsChar(SubSeq(hostport, 1, i - 1), ":")
                    \/ ContainsChar(hostport, "[")
                    \/ ContainsChar(hostport, "]")
                 THEN Err
                 ELSE [ok |-> TRUE, host |-> SubSeq(hostport, 1, i - 1)]

\* getClientIP reading the transport address only
getClientIP_TransportOnly(r) ==
    IF SplitHostPort(r.remoteAddr).ok THEN SplitHostPort(r.remoteAddr).host
    ELSE r.remoteAddr

\* getClientIP reading X-Real-IP before X-Forwarded-For
getClientIP_RealIPFirst(r) ==
    IF r.xri # <<>> THEN TrimSpace(r.xri)
    ELSE IF r.xff # <<>> THEN TrimSpace(Split(r.xff, ",")[1])
    ELSE IF SplitHostPort(r.remoteAddr).ok THEN SplitHostPort(r.remoteAddr).host
    ELSE r.remoteAddr

\* getClientIP: X-Forwarded-For first hop, else X-Real-IP, else the transport host
getClientIP(r) ==
    IF r.xff # <<>> THEN TrimSpace(Split(r.xff, ",")[1])
    ELSE IF r.xri # <<>> THEN TrimSpace(r.xri)
    ELSE IF SplitHostPort(r.remoteAddr).ok THEN SplitHostPort(r.remoteAddr).host
    ELSE r.remoteAddr

(***************************************************************************)
(* Identities.                                                             *)
(***************************************************************************)
UserRole(label, uuid) == [Label |-> label, UUID |-> uuid]

UserInfo(sub, email, name, preferred, login, uuid, group, roles) ==
    [Sub |-> sub, Email |-> email, Name |-> name, PreferredName |-> preferred,
     Login |-> login, UUID |-> uuid, GroupPath |-> group, Roles |-> roles]

\* the zero value UserInfo{}
ZeroUserInfo == UserInfo(<<>>, <<>>, <<>>, <<>>, <<>>, <<>>, <<>>, <<>>)

\* the identity attached to a request let through for its address
trustedUserInfo(clientIP) ==
    UserInfo(<<"t", "r", "u", "s", "t", "e", "d", "-", "i", "p", ":">> \o clientIP, <<"t", "r", "u", "s", "t", "e", "d", "@", "i", "n", "t", "e", "r", "n", "a", "l">>,
             <<"T", "r", "u", "s", "t", "e", "d", " ", "I", "n", "t", "e", "r", "n", "a", "l", " ", "U", "s", "e", "r">>, <<"t", "r", "u", "s", "t", "e", "d">>, <<"t", "r", "u", "s", "t", "e", "d", "-", "i", "p">>,
             <<"t", "r", "u", "s", "t", "e", "d", "-", "i", "p", ":">> \o clientIP, <<"/", "t", "r", "u", "s", "t", "e", "d">>,
             <<UserRole(<<"t", "r", "u", "s", "t", "e", "d">>, <<"t", "r", "u", "s", "t", "e", "d", "-", "r", "o", "l", "e">>)>>)

(***************************************************************************)
(* The two upstream services.  What they answer for a token when they      *)
(* answer: the userinfo endpoint returns the token owner's claims, the     *)
(* directory returns the users whose Uuid is the queried subject.  The     *)
(* directory's records carry their own values in the provider-owned fields.*)
(***************************************************************************)
tokenA == <<"t", "1">>
tokenB == <<"T", "1">>

OidcOf(token) ==
    IF token = tokenA
    THEN UserInfo(<<"u", "1">>, <<"a", "@", "x">>, <<"A", "n", "n">>, <<"a", "n", "n">>, <<>>, <<>>, <<>>, <<>>)
    ELSE IF token = tokenB
    THEN UserInfo(<<"u", "2">>, <<"b", "@", "x">>, <<"B", "o", "b">>, <<"b", "o", "b">>, <<>>, <<>>, <<>>, <<>>)
    ELSE UserInfo(<<"u", "0">>, <<"0", "@", "x">>, <<"N", "i", "l">>, <<"n", "i", "l">>, <<>>, <<>>, <<>>, <<>>)

PydioOf(sub) ==
    IF sub = <<"u", "1">>
    THEN <<UserInfo(<<"p", "1">>, <<"a", "@", "p">>, <<>>, <<>>, <<"a", "n", "n">>, <<"u", "1">>, <<"/", "g", "1">>,
                    <<UserRole(<<"a", "d", "m", "i", "n">>, <<"r", "1">>), UserRole(<<"u", "s", "e", "r">>, <<"r", "2">>)>>),
           UserInfo(<<>>, <<>>, <<>>, <<>>, <<"a", "n", "n", "2">>, <<"u", "1">>, <<"/", "g", "9">>, <<>>)>>
    ELSE IF sub = <<"u", "2">>
    THEN <<UserInfo(<<>>, <<>>, <<>>, <<>>, <<"b", "o", "b">>, <<"u", "2">>, <<"/", "g", "2">>,
                    <<UserRole(<<"u", "s", "e", "r">>, <<"r", "2">>)>>)>>
    ELSE <<UserInfo(<<>>, <<>>, <<>>, <<>>, <<"n", "i", "l">>, sub, <<"/">>, <<>>)>>

\* how an upstream call can fail: client.Do returns an error (connection
\* failure or timeout), the status is not 200, the body is not the expected
\* JSON, or the connection fails or times out while the decoder reads the body
FailureKinds == {"transport", "status", "undecodable", "truncated"}

\* what the userinfo call can return for a token: one of the failures, or 200
\* with the owner's claims, or with claims that lack "sub"
UserinfoOutcomes(token) ==
    {[kind |-> k, body |-> ZeroUserInfo] : k \in FailureKinds}
    \cup {[kind |-> "ok", body |-> b] :
            b \in {OidcOf(token), [OidcOf(token) EXCEPT !.Sub = <<>>]}}

\* what the directory call can return for a subject: the same failures, or 200
\* with the users found, or with none
PydioOutcomes(sub) ==
    {[kind |-> k, users |-> <<>>] : k \in FailureKinds}
    \cup {[kind |-> "ok", users |-> u] : u \in {PydioOf(sub), <<>>}}

(***************************************************************************)
(* The identity cache.  cache maps a token to a CacheEntry; lastSet        *)
(* remembers, for every token ever stored, the expiry its latest Set gave  *)
(* it (it outlives the sweep and is read by no operation).                 *)
(***************************************************************************)
\* userInfoCache = NewUserInfoCache(5 * time.Minute)
TTL == 5

CacheEntry(userInfo, expiresAt) == [UserInfo |-> userInfo, ExpiresAt |-> expiresAt]

EmptyCache == [t \in {} |-> CacheEntry(ZeroUserInfo, 0)]

\* Time.After with receiver and argument exchanged
After_Swapped(t, u) == u > t

\* Time.After
After(t, u) == t > u

\* Get with the expiry test inverted
Get_Inverted(token) ==
    IF token \notin DOMAIN cache \/ ~After(now, cache[token].ExpiresAt)
    THEN [UserInfo |-> ZeroUserInfo, found |-> FALSE]
    ELSE [UserInfo |-> cache[token].UserInfo, found |-> TRUE]

\* Get without the expiry test
Get_NoExpiryCheck(token) ==
    IF token \notin DOMAIN cache
    THEN [UserInfo |-> ZeroUserInfo, found |-> FALSE]
    ELSE [UserInfo |-> cache[token].UserInfo, found |-> TRUE]

\* UserInfoCache.Get at the current clock reading
Get(token) ==
    IF token \notin DOMAIN cache \/ After(now, cache[token].ExpiresAt)
    THEN [UserInfo |-> ZeroUserInfo, found |-> FALSE]
    ELSE [UserInfo |-> cache[token].UserInfo, found |-> TRUE]

\* Get that deletes the expired entry it finds
GetMap_DeleteExpired(token) ==
    IF token \in DOMAIN cache /\ After(now, cache[token].ExpiresAt)
    THEN [t \in DOMAIN cache \ {token} |-> cache[t]]
    ELSE cache

\* the map after UserInfoCache.Get(token): Get holds the read lock, reads the
\* entry and writes nothing
GetMap(token) == cache

\* Set that keeps the entry a token already has
Set_KeepExisting(token, userInfo) ==
    [t \in DOMAIN cache \cup {token} |->
        IF t \in DOMAIN cache THEN cache[t] ELSE CacheEntry(userInfo, now + TTL)]

\* Set that replaces the map by the one entry
Set_DropOthers(token, userInfo) ==
    [t \in {token} |-> CacheEntry(userInfo, now + TTL)]

\* UserInfoCache.Set at the current clock reading: the map after the store
Set(token, userInfo) ==
    [t \in DOMAIN cache \cup {token} |->
        IF t = token THEN CacheEntry(userInfo, now + TTL) ELSE cache[t]]

\* a pass that deletes nothing
SweepPass_KeepAll == cache

\* a pass that also deletes the entries expiring at the clock reading
SweepPass_AtExpiry ==
    [t \in {u \in DOMAIN cache : After(cache[u].ExpiresAt, now)} |-> cache[t]]

\* one pass of the cleanup loop at the current clock reading: the map after it
SweepPass ==
    [t \in {u \in DOMAIN cache : ~After(now, cache[u].ExpiresAt)} |-> cache[t]]

(***************************************************************************)
(* The cache's sync.RWMutex.  held maps every goroutine inside to the mode *)
(* it holds the lock in, "R" after RLock and "W" after Lock; pending is    *)
(* the set of goroutines blocked in Lock.  Goroutines are the requests and *)
(* the cleanup goroutine.                                                  *)
(***************************************************************************)
NewMutex == [held |-> [g \in {} |-> "R"], pending |-> {}]

\* RLock returns: no writer is inside and none is blocked in Lock
CanRLock == mutex.pending = {} /\ \A g \in DOMAIN mutex.held : mutex.held[g] = "R"

\* Lock returns: nobody is inside
CanLock == DOMAIN mutex.held = {}

\* the mutex once goroutine g is inside in the given mode
Acquire(g, mode) ==
    [held |-> [h \in DOMAIN mutex.held \cup {g} |->
                 IF h = g THEN mode ELSE mutex.held[h]],
     pending |-> mutex.pending \ {g}]

\* the mutex once goroutine g has called RUnlock or Unlock
Release(g) ==
    [mutex EXCEPT !.held = [h \in DOMAIN mutex.held \ {g} |-> mutex.held[h]]]

(***************************************************************************)
(* Per-request state.  pc is the position of the request's goroutine:      *)
(* "new" (not yet received), "userinfo" and "pydio" (suspended in the      *)
(* upstream call), "done" (handler returned).                              *)
(*   ctxDone  whether the context of the inbound request is done (the      *)
(*            client went away or the router's five-second timeout passed) *)
(*   w        what the gateway wrote: status 0 when it wrote nothing       *)
(*   ctx      the value under userInfoContextKey, <<>> when none           *)
(*   nNext    number of calls of next.ServeHTTP                            *)
(*   nGet, nSet, nUserinfo, nPydio   cache and upstream calls made         *)
(*   userinfoReq, pydioReq   the upstream requests sent, <<>> before       *)
(*   uo, po   the outcomes the two upstream calls had, <<>> before the call *)
(*            returns (not read by the program)                            *)
(*   seen     what the cache held for the token when Get ran (not read by  *)
(*            the program): "none" no Get, "never" no Set ever, else the   *)
(*            clock against the expiry of the latest Set; present tells    *)
(*            whether the entry was still in the map                       *)
(***************************************************************************)
Reqs == 1..NumReqs

NoResponse == [status |-> 0, msg |-> ""]

NewReq ==
    [pc |-> "new", in |-> NoRequest, clientIP |-> <<>>, token |-> <<>>,
     hit |-> FALSE, seen |-> "none", present |-> FALSE,
     oidc |-> <<>>, uo |-> <<>>, po |-> <<>>, err |-> "", w |-> NoResponse,
     userinfoReq |-> <<>>, pydioReq |-> <<>>,
     ctx |-> <<>>, ctxDone |-> FALSE,
     nNext |-> 0, nGet |-> 0, nSet |-> 0, nUserinfo |-> 0, nPydio |-> 0]

\* an upstream request: its Authorization header and, for the directory, the
\* Uuid of its one query (<<>> for the userinfo GET, which has no body)
UpstreamRequest(token, uuid) == [auth |-> <<"B", "e", "a", "r", "e", "r", " ">> \o token, uuid |-> uuid]

\* ctx := context.WithValue(..., userInfo); next.ServeHTTP(w, r.WithContext(ctx))
ServeNext(q, userInfo) ==
    [q EXCEPT !.pc = "done", !.ctx = <<userInfo>>, !.nNext = @ + 1]

\* respondWithError whose caller does not return after it
respondWithError_FallThrough(q, code, message) ==
    ServeNext([q EXCEPT !.w = [status |-> code, msg |-> message]], ZeroUserInfo)

\* respondWithError
respondWithError(q, code, message) ==
    [q EXCEPT !.pc = "done", !.w = [status |-> code, msg |-> message]]

\* GetUserInfo: <<>> stands for nil
GetUserInfo(q) == q.ctx

\* the clock against the expiry of the token's entry (of its latest entry when
\* the sweep has removed it), see seen above
Seen(token) ==
    IF token \notin DOMAIN lastSet THEN "never"
    ELSE LET expiry == IF token \in DOMAIN cache THEN cache[token].ExpiresAt
                       ELSE lastSet[token]
         IN IF now < expiry THEN "before"
            ELSE IF now = expiry THEN "at"
            ELSE "after"

\* validateTokenAndGetUserInfo up to its first suspension: the cache check,
\* then on a miss the userinfo request is sent
validateTokenAndGetUserInfo(q, token) ==
    LET g == Get(token)
        q1 == [q EXCEPT !.token = <<token>>, !.nGet = @ + 1, !.hit = g.found,
                        !.seen = Seen(token), !.present = token \in DOMAIN cache]
    IN IF g.found
       THEN ServeNext(q1, g.UserInfo)
       ELSE [q1 EXCEPT !.pc = "userinfo", !.nUserinfo = @ + 1,
                       !.userinfoReq = <<UpstreamRequest(token, <<>>)>>]

\* the header split after it was lower-cased as a whole
BearerParts_Lowered(authHeader) == Split(ToLower(authHeader), " ")

\* the header split on runs of spaces, as strings.Fields would
BearerParts_Fields(authHeader) ==
    SelectSeq(Split(authHeader, " "), LAMBDA p : p # <<>>)

\* the Authorization header split on " "
BearerParts(authHeader) == Split(authHeader, " ")

\* TokenRequired with the header checked before the client address
TokenRequired_HeaderFirst(r, trustedIPs) ==
    LET clientIP == getClientIP(r)
        q == [NewReq EXCEPT !.in = r, !.clientIP = clientIP]
        authHeader == r.auth
        parts == BearerParts(authHeader)
    IN IF authHeader = <<>>
       THEN [respondWithError(q, 401, "Missing authorization header")
                EXCEPT !.err = "missing authorization header"]
       ELSE IF isIPTrusted(clientIP, trustedIPs)
       THEN ServeNext(q, trustedUserInfo(clientIP))
       ELSE IF Len(parts) # 2 \/ ToLower(parts[1]) # <<"b", "e", "a", "r", "e", "r">>
       THEN [respondWithError(q, 401, "Invalid Authorization header format")
                EXCEPT !.err = "invalid Authorization header format"]
       ELSE validateTokenAndGetUserInfo(q, parts[2])

\* TokenRequired for request r up to its first suspension or its return
TokenRequired(r, trustedIPs) ==
    LET clientIP == getClientIP(r)
        q == [NewReq EXCEPT !.in = r, !.clientIP = clientIP]
        authHeader == r.auth
        parts == BearerParts(authHeader)
    IN IF isIPTrusted(clientIP, trustedIPs)
       THEN ServeNext(q, trustedUserInfo(clientIP))
       ELSE IF authHeader = <<>>
       THEN [respondWithError(q, 401, "Missing authorization header")
                EXCEPT !.err = "missing authorization header"]
       ELSE IF Len(parts) # 2 \/ ToLower(parts[1]) # <<"b", "e", "a", "r", "e", "r">>
       THEN [respondWithError(q, 401, "Invalid Authorization header format")
                EXCEPT !.err = "invalid Authorization header format"]
       ELSE validateTokenAndGetUserInfo(q, parts[2])

\* ValidationFailed that sends the error text to the caller
ValidationFailed_EchoErr(q, err) ==
    [respondWithError(q, 401, err) EXCEPT !.err = err]

\* the error return of validateTokenAndGetUserInfo, as TokenRequired handles
\* it.  err is the text of the error value: the format of fmt.Errorf and, where
\* the format wraps a cause with %w, a text standing for the cause
ValidationFailed(q, err) ==
    [respondWithError(q, 401, "Invalid or expired token") EXCEPT !.err = err]

\* UserinfoReturned without the status check, the body of the non-200 answer
\* decoding to the owner's claims
UserinfoReturned_StatusIgnored(q, outcome) ==
    IF outcome.kind = "transport"
    THEN ValidationFailed(q, "userinfo request failed: connection refused")
    ELSE IF outcome.kind = "undecodable"
    THEN ValidationFailed(q, "failed to decode userinfo response: invalid character")
    ELSE IF outcome.kind = "truncated"
    THEN ValidationFailed(q, "failed to decode userinfo response: connection reset")
    ELSE IF outcome.kind = "ok" /\ outcome.body.Sub = <<>>
    THEN ValidationFailed(q, "user UUID not found in OIDC user info")
    ELSE [q EXCEPT !.pc = "pydio", !.nPydio = @ + 1,
                   !.oidc = <<IF outcome.kind = "ok" THEN outcome.body
                              ELSE OidcOf(q.token[1])>>,
                   !.pydioReq = <<UpstreamRequest(q.token[1],
                                     IF outcome.kind = "ok" THEN outcome.body.Sub
                                     ELSE OidcOf(q.token[1]).Sub)>>]

\* UserinfoReturned returning one and the same error for every failed call
UserinfoReturned_SameError(q, outcome) ==
    IF outcome.kind # "ok"
    THEN ValidationFailed(q, "userinfo request failed")
    ELSE IF outcome.body.Sub = <<>>
    THEN ValidationFailed(q, "user UUID not found in OIDC user info")
    ELSE [q EXCEPT !.pc = "pydio", !.oidc = <<outcome.body>>, !.nPydio = @ + 1,
                   !.pydioReq = <<UpstreamRequest(q.token[1], outcome.body.Sub)>>]

\* UserinfoReturned without the check of the subject
UserinfoReturned_NoSubCheck(q, outcome) ==
    IF outcome.kind = "transport"
    THEN ValidationFailed(q, "userinfo request failed: connection refused")
    ELSE IF outcome.kind = "status"
    THEN ValidationFailed(q, "userinfo request failed with status: 500")
    ELSE IF outcome.kind = "undecodable"
    THEN ValidationFailed(q, "failed to decode userinfo response: invalid character")
    ELSE IF outcome.kind = "truncated"
    THEN ValidationFailed(q, "failed to decode userinfo response: connection reset")
    ELSE [q EXCEPT !.pc = "pydio", !.oidc = <<outcome.body>>, !.nPydio = @ + 1,
                   !.pydioReq = <<UpstreamRequest(q.token[1], outcome.body.Sub)>>]

\* UserinfoReturned sending the userinfo request once more when client.Do
\* returned an error the first time
UserinfoReturned_RetryOnce(q, outcome) ==
    IF outcome.kind = "transport"
    THEN IF q.nUserinfo < 2
         THEN [q EXCEPT !.nUserinfo = @ + 1]
         ELSE ValidationFailed(q, "userinfo request failed: connection refused")
    ELSE IF outcome.kind = "status"
    THEN ValidationFailed(q, "userinfo request failed with status: 500")
    ELSE IF outcome.kind = "undecodable"
    THEN ValidationFailed(q, "failed to decode userinfo response: invalid character")
    ELSE IF outcome.kind = "truncated"
    THEN ValidationFailed(q, "failed to decode userinfo response: connection reset")
    ELSE IF outcome.body.Sub = <<>>
    THEN ValidationFailed(q, "user UUID not found in OIDC user info")
    ELSE [q EXCEPT !.pc = "pydio", !.oidc = <<outcome.body>>, !.nPydio = @ + 1,
                   !.pydioReq = <<UpstreamRequest(q.token[1], outcome.body.Sub)>>]

\* client.Do(req) of the userinfo call returned: status and body are checked,
\* then the directory request is sent
UserinfoReturned(q, outcome) ==
    IF outcome.kind = "transport"
    THEN ValidationFailed(q, "userinfo request failed: connection refused")
    ELSE IF outcome.kind = "status"
    THEN ValidationFailed(q, "userinfo request failed with status: 500")
    ELSE IF outcome.kind = "undecodable"
    THEN ValidationFailed(q, "failed to decode userinfo response: invalid character")
    ELSE IF outcome.kind = "truncated"
    THEN ValidationFailed(q, "failed to decode userinfo response: connection reset")
    ELSE IF outcome.body.Sub = <<>>
    THEN ValidationFailed(q, "user UUID not found in OIDC user info")
    ELSE [q EXCEPT !.pc = "pydio", !.oidc = <<outcome.body>>, !.nPydio = @ + 1,
                   !.pydioReq = <<UpstreamRequest(q.token[1], outcome.body.Sub)>>]

\* the merge in which a field the directory record carries wins
MergeUserInfo_DirectoryWins(pydioUser, oidcUserInfo) ==
    [pydioUser EXCEPT
        !.Sub = IF @ = <<>> THEN oidcUserInfo.Sub ELSE @,
        !.Email = IF @ = <<>> THEN oidcUserInfo.Email ELSE @,
        !.Name = IF @ = <<>> THEN oidcUserInfo.Name ELSE @,
        !.PreferredName = IF @ = <<>> THEN oidcUserInfo.PreferredName ELSE @]

\* the merge: the first directory user, overlaid with the provider's claims
MergeUserInfo(pydioUser, oidcUserInfo) ==
    [pydioUser EXCEPT !.Sub = oidcUserInfo.Sub, !.Email = oidcUserInfo.Email,
                      !.Name = oidcUserInfo.Name,
                      !.PreferredName = oidcUserInfo.PreferredName]

\* PydioReturned without the check of the user count, the missing first user
\* read as the zero value
PydioReturned_ZeroUsersOk(q, outcome) ==
    IF outcome.kind = "transport"
    THEN ValidationFailed(q, "pydio request failed: connection refused")
    ELSE IF outcome.kind = "status"
    THEN ValidationFailed(q, "pydio request failed with status: 500")
    ELSE IF outcome.kind = "undecodable"
    THEN ValidationFailed(q, "failed to decode Pydio response: invalid character")
    ELSE IF outcome.kind = "truncated"
    THEN ValidationFailed(q, "failed to decode Pydio response: connection reset")
    ELSE ServeNext([q EXCEPT !.nSet = @ + 1],
                   MergeUserInfo(IF Len(outcome.users) = 0 THEN ZeroUserInfo
                                 ELSE outcome.users[1], q.oidc[1]))

\* PydioReturned without the status check, the body of the non-200 answer
\* decoding to a user without fields
PydioReturned_StatusIgnored(q, outcome) ==
    IF outcome.kind = "transport"
    THEN ValidationFailed(q, "pydio request failed: connection refused")
    ELSE IF outcome.kind = "status"
    THEN ServeNext([q EXCEPT !.nSet = @ + 1], MergeUserInfo(ZeroUserInfo, q.oidc[1]))
    ELSE IF outcome.kind = "undecodable"
    THEN ValidationFailed(q, "failed to decode Pydio response: invalid character")
    ELSE IF outcome.kind = "truncated"
    THEN ValidationFailed(q, "failed to decode Pydio response: connection reset")
    ELSE IF Len(outcome.users) = 0
    THEN ValidationFailed(q, "user not found in Pydio Cells")
    ELSE ServeNext([q EXCEPT !.nSet = @ + 1],
                   MergeUserInfo(outcome.users[1], q.oidc[1]))

\* client.Do(pydioReq) returned: status, body and user count are checked; on
\* success the merged identity is what Set stores and what the request carries
PydioReturned(q, outcome) ==
    IF outcome.kind = "transport"
    THEN ValidationFailed(q, "pydio request failed: connection refused")
    ELSE IF outcome.kind = "status"
    THEN ValidationFailed(q, "pydio request failed with status: 500")
    ELSE IF outcome.kind = "undecodable"
    THEN ValidationFailed(q, "failed to decode Pydio response: invalid character")
    ELSE IF outcome.kind = "truncated"
    THEN ValidationFailed(q, "failed to decode Pydio response: connection reset")
    ELSE IF Len(outcome.users) = 0
    THEN ValidationFailed(q, "user not found in Pydio Cells")
    ELSE ServeNext([q EXCEPT !.nSet = @ + 1],
                   MergeUserInfo(outcome.users[1], q.oidc[1]))

(***************************************************************************)
(* The gateway: NumReqs requests against one process-wide cache.           *)
(***************************************************************************)
\* cfg.TrustedIPs of the running server
TrustedIPs == <<<<"1", "2", "7", ".", "0", ".", "0", ".", "1">>, <<"1", "9", "2", ".", "1", "6", "8", ".", "1", ".", "0", "/", "2", "4">>, <<"1", "0", ".", "0", ".", "0", ".", "0", "/", "8">>>>

AuthHeaders ==
    {<<>>, <<"B", "e", "a", "r", "e", "r", " ", "t", "1">>, <<"B", "e", "a", "r", "e", "r", " ", "T", "1">>, <<"B", "a", "s", "i", "c", " ", "t", "1">>}

\* the requests the clients send
Requests ==
    {HttpRequest(<<>>, <<>>, <<"8", ".", "8", ".", "8", ".", "8", ":", "8", "0">>, h) : h \in AuthHeaders}
    \cup {HttpRequest(<<>>, <<>>, <<"1", "0", ".", "1", ".", "2", ".", "3", ":", "4", "4", "4", "4", "4">>, h) :
            h \in {<<>>, <<"B", "e", "a", "r", "e", "r", " ", "t", "1">>, <<"B", "a", "s", "i", "c", " ", "t", "1">>}}
    \cup {HttpRequest(<<"1", "0", ".", "1", ".", "2", ".", "3", ",", " ", "8", ".", "8", ".", "8", ".", "8">>, <<"9", ".", "9", ".", "9", ".", "9">>, <<"8", ".", "8", ".", "8", ".", "8", ":", "8", "0">>, <<>>),
          HttpRequest(<<>>, <<"u", "n", "k", "n", "o", "w", "n">>, <<"8", ".", "8", ".", "8", ".", "8", ":", "8", "0">>, <<>>)}

\* a request together with the trusted list of the server that receives it
HandlerInput(r, trustedIPs) == [r |-> r, trusted |-> trustedIPs]

NoInput == HandlerInput(NoRequest, <<>>)

Init ==
    /\ now = 0
    /\ cache = EmptyCache
    /\ lastSet = [t \in {} |-> 0]
    /\ req = [r \in Reqs |-> NewReq]
    /\ jwksCache = {}
    /\ mutex = NewMutex
    /\ pin = NoInput
    /\ pout = <<>>

\* a request is received and runs to its first suspension or to its return
Receive(r, in) ==
    /\ req[r].pc = "new"
    /\ r > 1 => req[r - 1].pc # "new"
    /\ LET q == TokenRequired(in, TrustedIPs)
       IN /\ req' = [req EXCEPT ![r] = q]
          /\ cache' = IF q.nGet = 1 THEN GetMap(q.token[1]) ELSE cache
    /\ UNCHANGED <<now, lastSet, jwksCache, mutex, pin, pout>>

\* the userinfo call of request r returns
UserinfoResponse(r) ==
    /\ req[r].pc = "userinfo"
    /\ \E outcome \in UserinfoOutcomes(req[r].token[1]) :
          req' = [req EXCEPT ![r] = [UserinfoReturned(req[r], outcome)
                                        EXCEPT !.uo = <<outcome>>]]
    /\ UNCHANGED <<now, cache, lastSet, jwksCache, mutex, pin, pout>>

\* the directory call of request r returns; on success the identity is stored
PydioResponse(r) ==
    /\ req[r].pc = "pydio"
    /\ \E outcome \in PydioOutcomes(req[r].pydioReq[1].uuid) :
          LET q == [PydioReturned(req[r], outcome) EXCEPT !.po = <<outcome>>]
              token == req[r].token[1]
          IN /\ req' = [req EXCEPT ![r] = q]
             /\ IF q.nSet > req[r].nSet
                THEN /\ cache' = Set(token, q.ctx[1])
                     /\ lastSet' = [t \in DOMAIN lastSet \cup {token} |->
                                      IF t = token THEN now + TTL ELSE lastSet[t]]
                ELSE UNCHANGED <<cache, lastSet>>
    /\ UNCHANGED <<now, jwksCache, mutex, pin, pout>>

\* the ticker of the cleanup goroutine has fired and one pass runs
cleanup ==
    /\ now >= 1
    /\ cache' = SweepPass
    /\ UNCHANGED <<now, req, lastSet, jwksCache, mutex, pin, pout>>

\* a minute passes.  The clock is read by Get, Set and cleanup only, and while
\* nothing was ever stored its reading decides nothing: minutes are counted
\* from the first store on.
Tick ==
    /\ now < MaxTime
    /\ DOMAIN lastSet # {}
    /\ now' = now + 1
    /\ UNCHANGED <<cache, req, lastSet, jwksCache, mutex, pin, pout>>

\* the context of inbound request r is done while its upstream call is in
\* flight: the client went away, or the deadline set by the router's
\* Timeout middleware passed.  The upstream requests are built without a
\* context and nothing in the handler reads r.Context().Done().
Cancel(r) ==
    /\ req[r].pc \in {"userinfo", "pydio"}
    /\ ~req[r].ctxDone
    /\ req' = [req EXCEPT ![r].ctxDone = TRUE]
    /\ UNCHANGED <<now, cache, lastSet, jwksCache, mutex, pin, pout>>

Next ==
    \/ \E r \in Reqs, in \in Requests : Receive(r, in)
    \/ \E r \in Reqs : UserinfoResponse(r)
    \/ \E r \in Reqs : PydioResponse(r)
    \/ cleanup
    \/ Tick

Spec == Init /\ [][Next]_vars

\* the pipeline with inbound requests that may be cancelled or time out
NextCancel ==
    \/ Next
    \/ \E r \in Reqs : Cancel(r)

SpecCancel == Init /\ [][NextCancel]_vars

(***************************************************************************)
(* The handler applied once to a request, over a wide range of client      *)
(* addresses, trusted lists and Authorization headers, on a fresh server   *)
(* (empty cache): pin is the input, pout the request's state when the      *)
(* handler suspends or returns.                                            *)
(***************************************************************************)
\* longest trusted list tried
MaxTrusted == 2

ClientAddrs ==
    {<<"1", "0", ".", "1", ".", "2", ".", "3">>, <<"1", "0", ".", "2", "5", "5", ".", "2", "5", "5", ".", "2", "5", "5">>, <<"1", "1", ".", "0", ".", "0", ".", "0">>, <<"9", ".", "2", "5", "5", ".", "2", "5", "5", ".", "2", "5", "5">>,
     <<"1", "2", "7", ".", "0", ".", "0", ".", "1">>, <<"1", "2", "7", ".", "0", ".", "0", ".", "2">>, <<"1", "9", "2", ".", "1", "6", "8", ".", "1", ".", "1", "2", "7">>, <<"1", "9", "2", ".", "1", "6", "8", ".", "1", ".", "1", "2", "8">>,
     <<"1", "7", "2", ".", "3", "1", ".", "2", "5", "5", ".", "2", "5", "5">>, <<"1", "7", "2", ".", "3", "2", ".", "0", ".", "0">>, <<":", ":", "1">>, <<":", ":", "2">>, <<"f", "d", "1", "2", ":", ":", "1">>,
     <<"f", "e", "0", "0", ":", ":", "1">>, <<":", ":", "f", "f", "f", "f", ":", "a", "0", "1", ":", "2", "0", "3">>, <<"i", "n", "v", "a", "l", "i", "d", "-", "i", "p">>, <<"0", "1", "0", ".", "1", ".", "2", ".", "3">>,
     <<" ", "1", "0", ".", "1", ".", "2", ".", "3", " ">>}

TrustedEntries ==
    {<<"1", "2", "7", ".", "0", ".", "0", ".", "1">>, <<"1", "0", ".", "0", ".", "0", ".", "0", "/", "8">>, <<"1", "9", "2", ".", "1", "6", "8", ".", "1", ".", "1", "2", "8", "/", "2", "5">>, <<"1", "7", "2", ".", "1", "6", ".", "0", ".", "0", "/", "1", "2">>,
     <<"1", "0", ".", "1", ".", "2", ".", "3", "/", "8">>, <<":", ":", "1">>, <<"f", "d", "0", "0", ":", ":", "/", "8">>, <<":", ":", "/", "0">>,
     <<"1", "0", ".", "0", ".", "0", ".", "0", "/", "3", "3">>, <<"b", "o", "g", "u", "s">>}

TrustedLists == UNION {[1..n -> TrustedEntries] : n \in 0..MaxTrusted}

SchemeWords == {<<>>, <<"B", "e", "a", "r", "e", "r">>, <<"b", "e", "a", "r", "e", "r">>, <<"B", "E", "A", "R", "E", "R">>, <<"B", "a", "s", "i", "c">>, <<"B", "e", "a", "r", "e", "r", "s">>}
Separators == {<<>>, <<" ">>, <<" ", " ">>}
TokenWords == {<<>>, <<"t", "1">>}
Trailers == {<<>>, <<" ">>, <<" ", "x">>}

ManyAuthHeaders ==
    {s \o p \o t \o x : s \in SchemeWords, p \in Separators,
                        t \in TokenWords, x \in Trailers}

\* values of the two proxy headers and of the transport address
ForwardedFors ==
    {<<>>, <<"1", "0", ".", "1", ".", "2", ".", "3">>, <<"1", "0", ".", "1", ".", "2", ".", "3", ",", " ", "8", ".", "8", ".", "8", ".", "8">>, <<" ", "1", "0", ".", "1", ".", "2", ".", "3", " ", ",", "8", ".", "8", ".", "8", ".", "8">>,
     <<"8", ".", "8", ".", "8", ".", "8", ",", "1", "0", ".", "1", ".", "2", ".", "3">>, <<",", "1", "0", ".", "1", ".", "2", ".", "3">>, <<" ">>}
RealIPs == {<<>>, <<"1", "2", "7", ".", "0", ".", "0", ".", "1">>, <<" ", "1", "2", "7", ".", "0", ".", "0", ".", "1", " ">>, <<"9", ".", "9", ".", "9", ".", "9">>}
RemoteAddrs == {<<"8", ".", "8", ".", "8", ".", "8", ":", "8", "0">>, <<"1", "9", "2", ".", "1", "6", "8", ".", "1", ".", "7", ":", "4", "4", "4", "4", "4">>, <<"[", ":", ":", "1", "]", ":", "8", "0">>, <<"1", "0", ".", "1", ".", "2", ".", "3">>}

HandlerInputs ==
    {HandlerInput(HttpRequest(<<>>, c, <<"8", ".", "8", ".", "8", ".", "8", ":", "8", "0">>, <<>>), l) :
        c \in ClientAddrs, l \in TrustedLists}
    \cup {HandlerInput(HttpRequest(<<>>, c, <<"8", ".", "8", ".", "8", ".", "8", ":", "8", "0">>, <<"B", "e", "a", "r", "e", "r", " ", "t", "1">>), l) :
            c \in ClientAddrs, l \in {<<>>, TrustedIPs}}
    \cup {HandlerInput(HttpRequest(<<>>, <<>>, <<"8", ".", "8", ".", "8", ".", "8", ":", "8", "0">>, h), TrustedIPs) :
            h \in ManyAuthHeaders}
    \cup {HandlerInput(HttpRequest(f, x, a, <<>>), TrustedIPs) :
            f \in ForwardedFors, x \in RealIPs, a \in RemoteAddrs}

InitHandler ==
    /\ now = 0
    /\ cache = EmptyCache
    /\ lastSet = [t \in {} |-> 0]
    /\ req = [r \in Reqs |-> NewReq]
    /\ jwksCache = {}
    /\ mutex = NewMutex
    /\ pin \in HandlerInputs
    /\ pout = <<>>

\* the server receives the request
ApplyHandler ==
    /\ pout = <<>>
    /\ LET q == TokenRequired(pin.r, pin.trusted)
       IN /\ pout' = <<q>>
          /\ cache' = IF q.nGet = 1 THEN GetMap(q.token[1]) ELSE cache
    /\ UNCHANGED <<now, lastSet, req, jwksCache, mutex, pin>>

NextHandler == ApplyHandler

SpecHandler == InitHandler /\ [][NextHandler]_vars

(***************************************************************************)
(* Ranges of addresses, for stating what the trusted list means.  An       *)
(* address is its bits, most significant first: 32 for IPv4 (an            *)
(* IPv4-mapped IPv6 text denotes the IPv4 address), 128 for IPv6.          *)
(***************************************************************************)
BitsOf(ip) ==
    LET a == IF To4(ip) # NoIP THEN To4(ip) ELSE ip
    IN [i \in 1..(8 * Len(a)) |->
          (a[(i + 7) \div 8] \div Pow2(7 - ((i - 1) % 8))) % 2]

\* x <= y for bit strings of equal length, most significant bit first: at the
\* first bit where they differ, x has the 0
BitsLeq(x, y) ==
    \A i \in 1..Len(x) :
        (x[i] > y[i]) => \E j \in 1..(i - 1) : x[j] < y[j] /\ \A h \in 1..(j - 1) : x[h] = y[h]

\* the [lo, hi] range an entry denotes, ok = FALSE when it denotes none
EntryRange(e) ==
    LET slash == IndexChar(e, "/")
        text == IF slash = 0 THEN e ELSE SubSeq(e, 1, slash - 1)
        pfx == SubSeq(e, slash + 1, Len(e))
        addr == ParseAddr(text)
        bits == BitsOf(addr)
        width == 8 * Len(addr)
        n == IF slash = 0 THEN width ELSE DecVal(pfx)
        \* a prefix of an IPv4-mapped network counts from the IPv4 bits
        k == n - (width - Len(bits))
        valid == /\ addr # NoIP
                 /\ slash # 0 => /\ Len(pfx) > 0
                                 /\ \A j \in 1..Len(pfx) : IsDigit(pfx[j])
                                 /\ n <= width
    IN IF ~valid \/ k < 0 THEN [ok |-> FALSE, lo |-> <<>>, hi |-> <<>>]
       ELSE [ok |-> TRUE,
             lo |-> [i \in 1..Len(bits) |-> IF i <= k THEN bits[i] ELSE 0],
             hi |-> [i \in 1..Len(bits) |-> IF i <= k THEN bits[i] ELSE 1]]

\* the client address parses and lies in the range of some entry of the list
InSomeRange(clientIP, trustedIPs) ==
    /\ ParseAddr(clientIP) # NoIP
    /\ \E k \in 1..Len(trustedIPs) :
          LET rg == EntryRange(trustedIPs[k])
              a == BitsOf(ParseAddr(clientIP))
          IN /\ rg.ok
             /\ Len(a) = Len(rg.lo)
             /\ BitsLeq(rg.lo, a)
             /\ BitsLeq(a, rg.hi)


(***************************************************************************)
(* The JWT variant of the middleware (auth middleware for Cells JWT).  The *)
(* header is checked character by character; what the JWT library and the  *)
(* key fetch answer for the token is part of the input:                    *)
(*   parse    jwt.ParseString without verification succeeds                *)
(*   iss      the token's issuer                                           *)
(*   fetch    jwk.Fetch of the issuer's keys succeeds                      *)
(*   verify   jwt.ParseString with the key set succeeds                    *)
(*   roles    the verified token's "roles" claim: <<>> when absent, else   *)
(*            <<v>> with v.list telling whether the claim is an array and  *)
(*            v.items its elements, each a string or not                   *)
(* jwksCache is the set of issuers whose key set is in the JWKSCache.      *)
(***************************************************************************)
HasPrefix(s, prefix) ==
    Len(s) >= Len(prefix) /\ SubSeq(s, 1, Len(prefix)) = prefix

TrimPrefix(s, prefix) ==
    IF HasPrefix(s, prefix) THEN SubSeq(s, Len(prefix) + 1, Len(s)) ELSE s

Claim(isString, val) == [str |-> isString, val |-> val]

RolesClaim(isList, items) == [list |-> isList, items |-> items]

JwtFacts(parse, iss, fetch, verify, roles) ==
    [parse |-> parse, iss |-> iss, fetch |-> fetch, verify |-> verify,
     roles |-> roles]

\* the request of the JWT middleware: pc "panic" when the handler panicked
NewJwtReq == [pc |-> "new", w |-> NoResponse, jwt |-> <<>>, nNext |-> 0,
              fetched |-> FALSE]

\* contains(arr, val): [panic, found]; the loop stops at the first element
\* that is not a string, where the type assertion v.(string) panics, or that
\* equals val
contains(arr, val) ==
    LET stops == {k \in 1..Len(arr) : ~arr[k].str \/ arr[k].val = val}
        first == CHOOSE k \in stops : \A j \in stops : k <= j
    IN IF stops = {} THEN [panic |-> FALSE, found |-> FALSE]
       ELSE IF ~arr[first].str THEN [panic |-> TRUE, found |-> FALSE]
       ELSE [panic |-> FALSE, found |-> TRUE]

\* JWKSCache.Get: whether a key set is returned, and whether it was fetched
JWKSGet(iss, fetch) ==
    IF iss \in jwksCache THEN [ok |-> TRUE, fetched |-> FALSE]
    ELSE [ok |-> fetch, fetched |-> fetch]

\* the role check of Auth answering 401
Auth_Role401(hdr, tok) ==
    LET q == NewJwtReq
        raw == TrimPrefix(hdr, <<"B", "e", "a", "r", "e", "r", " ">>)
        keys == JWKSGet(tok.iss, tok.fetch)
        q1 == [q EXCEPT !.fetched = keys.fetched]
        has == contains(tok.roles[1].items, <<"a", "d", "m", "i", "n">>)
    IN IF ~HasPrefix(hdr, <<"B", "e", "a", "r", "e", "r", " ">>)
       THEN respondWithError(q, 401, "missing bearer token")
       ELSE IF Len(Split(raw, ".")) # 3
       THEN respondWithError(q, 401, "invalid token format")
       ELSE IF ~tok.parse
       THEN respondWithError(q, 401, "invalid token format")
       ELSE IF tok.iss = <<>>
       THEN respondWithError(q, 401, "token missing issuer")
       ELSE IF ~keys.ok
       THEN respondWithError(q, 401, "failed to fetch keys")
       ELSE IF ~tok.verify
       THEN respondWithError(q1, 401, "invalid or expired token")
       ELSE IF tok.roles = <<>>
       THEN [q1 EXCEPT !.pc = "done", !.jwt = <<tok>>, !.nNext = @ + 1]
       ELSE IF ~tok.roles[1].list \/ has.panic
       THEN [q1 EXCEPT !.pc = "panic"]
       ELSE IF ~has.found
       THEN respondWithError(q1, 401, "insufficient role")
       ELSE [q1 EXCEPT !.pc = "done", !.jwt = <<tok>>, !.nNext = @ + 1]

\* Auth, the JWT middleware, for a request with Authorization header hdr
Auth(hdr, tok) ==
    LET q == NewJwtReq
        raw == TrimPrefix(hdr, <<"B", "e", "a", "r", "e", "r", " ">>)
        keys == JWKSGet(tok.iss, tok.fetch)
        q1 == [q EXCEPT !.fetched = keys.fetched]
        has == contains(tok.roles[1].items, <<"a", "d", "m", "i", "n">>)
    IN IF ~HasPrefix(hdr, <<"B", "e", "a", "r", "e", "r", " ">>)
       THEN respondWithError(q, 401, "missing bearer token")
       ELSE IF Len(Split(raw, ".")) # 3
       THEN respondWithError(q, 401, "invalid token format")
       ELSE IF ~tok.parse
       THEN respondWithError(q, 401, "invalid token format")
       ELSE IF tok.iss = <<>>
       THEN respondWithError(q, 401, "token missing issuer")
       ELSE IF ~keys.ok
       THEN respondWithError(q, 401, "failed to fetch keys")
       ELSE IF ~tok.verify
       THEN respondWithError(q1, 401, "invalid or expired token")
       ELSE IF tok.roles = <<>>
       THEN [q1 EXCEPT !.pc = "done", !.jwt = <<tok>>, !.nNext = @ + 1]
       ELSE IF ~tok.roles[1].list \/ has.panic
       THEN [q1 EXCEPT !.pc = "panic"]
       ELSE IF ~has.found
       THEN respondWithError(q1, 403, "insufficient role")
       ELSE [q1 EXCEPT !.pc = "done", !.jwt = <<tok>>, !.nNext = @ + 1]

(***************************************************************************)
(* One request through either middleware, run to its end on a fresh        *)
(* server: pin is the request together with what the upstream services or  *)
(* the JWT library answer for it, pout the request's final state.          *)
(***************************************************************************)
\* the request once its userinfo call, if it made one, was answered uo
AfterUserinfo(q, uo) ==
    IF q.pc = "userinfo" THEN [UserinfoReturned(q, uo) EXCEPT !.uo = <<uo>>]
    ELSE q

\* the request once its directory call, if it made one, was answered po
AfterPydio(q, po) ==
    IF q.pc = "pydio" THEN [PydioReturned(q, po) EXCEPT !.po = <<po>>]
    ELSE q

\* TokenRequired with its two upstream calls answered uo and po
RunTokenRequired(r, trustedIPs, uo, po) ==
    AfterPydio(AfterUserinfo(TokenRequired(r, trustedIPs), uo), po)

\* the token the gateway would extract from a request, tokenA when none
TokenOf(r) ==
    LET parts == BearerParts(r.auth)
    IN IF Len(parts) = 2 THEN parts[2] ELSE tokenA

OidcInput(r, uo, po) ==
    [variant |-> "oidc", r |-> r, trusted |-> TrustedIPs, uo |-> uo, po |-> po]

JwtInput(hdr, tok) == [variant |-> "jwt", hdr |-> hdr, tok |-> tok]

OidcInputs ==
    UNION {UNION {{OidcInput(r, uo, po) : po \in PydioOutcomes(OidcOf(TokenOf(r)).Sub)} :
                    uo \in UserinfoOutcomes(TokenOf(r))} :
             r \in Requests}

JwtHeaders ==
    {<<>>, <<"B", "e", "a", "r", "e", "r", " ", "a", ".", "b", ".", "c">>, <<"b", "e", "a", "r", "e", "r", " ", "a", ".", "b", ".", "c">>, <<"B", "e", "a", "r", "e", "r", " ", "a", ".", "b">>, <<"B", "e", "a", "r", "e", "r", " ">>,
     <<"B", "a", "s", "i", "c", " ", "a", ".", "b", ".", "c">>, <<"B", "e", "a", "r", "e", "r", " ", "a", ".", "b", ".", "c", ".", "d">>, <<"a", ".", "b", ".", "c">>}

Issuers == {<<>>, <<"h", "t", "t", "p", "s", ":", "/", "/", "d", "e", "x">>}

RolesClaims ==
    {<<>>, <<RolesClaim(FALSE, <<>>)>>}
    \cup {<<RolesClaim(TRUE, items)>> :
            items \in {<<>>,
                       <<Claim(TRUE, <<"a", "d", "m", "i", "n">>)>>,
                       <<Claim(TRUE, <<"u", "s", "e", "r">>)>>,
                       <<Claim(TRUE, <<"u", "s", "e", "r">>), Claim(TRUE, <<"a", "d", "m", "i", "n">>)>>,
                       <<Claim(FALSE, <<>>), Claim(TRUE, <<"a", "d", "m", "i", "n">>)>>,
                       <<Claim(TRUE, <<"a", "d", "m", "i", "n">>), Claim(FALSE, <<>>)>>,
                       <<Claim(TRUE, <<"u", "s", "e", "r">>), Claim(FALSE, <<>>)>>}}

JwtInputs ==
    {JwtInput(hdr, JwtFacts(parse, iss, fetch, verify, roles)) :
        hdr \in JwtHeaders, parse \in BOOLEAN, iss \in Issuers,
        fetch \in BOOLEAN, verify \in BOOLEAN, roles \in RolesClaims}

InitAuth ==
    /\ now = 0
    /\ cache = EmptyCache
    /\ lastSet = [t \in {} |-> 0]
    /\ req = [r \in Reqs |-> NewReq]
    /\ jwksCache \in SUBSET (Issuers \ {<<>>})
    /\ mutex = NewMutex
    /\ pin \in OidcInputs \cup JwtInputs
    /\ pout = <<>>

\* the server with the OIDC middleware receives the request and answers it
ApplyTokenRequired ==
    /\ pout = <<>>
    /\ pin.variant = "oidc"
    /\ \E q \in {RunTokenRequired(pin.r, pin.trusted, pin.uo, pin.po)} :
          /\ pout' = <<q>>
          /\ IF q.nSet = 1
             THEN /\ cache' = Set(q.token[1], q.ctx[1])
                  /\ lastSet' = [t \in DOMAIN lastSet \cup {q.token[1]} |->
                                   IF t = q.token[1] THEN now + TTL ELSE lastSet[t]]
             ELSE /\ cache' = IF q.nGet = 1 THEN GetMap(q.token[1]) ELSE cache
                  /\ UNCHANGED lastSet
    /\ UNCHANGED <<now, req, jwksCache, mutex, pin>>

\* the server with the JWT middleware receives the request and answers it
ApplyAuth ==
    /\ pout = <<>>
    /\ pin.variant = "jwt"
    /\ \E q \in {Auth(pin.hdr, pin.tok)} :
          /\ pout' = <<q>>
          /\ jwksCache' = IF q.fetched THEN jwksCache \cup {pin.tok.iss}
                          ELSE jwksCache
    /\ UNCHANGED <<now, cache, lastSet, req, mutex, pin>>

NextAuth == ApplyTokenRequired \/ ApplyAuth

SpecAuth == InitAuth /\ [][NextAuth]_vars

(***************************************************************************)
(* One request through the OIDC middleware of a server that has run for a  *)
(* while: at minute 0 earlier requests stored the identities of some       *)
(* tokens, as the services answered then, and the request arrives at any   *)
(* later minute.                                                           *)
(***************************************************************************)
\* the identity that validating token stored when the directory knew the
\* owner under group path group
StoredIdentity(token, group) ==
    [MergeUserInfo(PydioOf(OidcOf(token).Sub)[1], OidcOf(token))
        EXCEPT !.GroupPath = group]

\* the group path the directory returns for the owner of token
GroupOf(token) == PydioOf(OidcOf(token).Sub)[1].GroupPath

\* the caches left by storing the tokens of a set at minute 0
WarmCaches ==
    UNION {{[t \in S |-> CacheEntry(StoredIdentity(t, IF t \in old THEN <<"/", "o", "l", "d">>
                                                       ELSE GroupOf(t)), TTL)] :
              old \in SUBSET S} :
           S \in {{tokenA}, {tokenB}, {tokenA, tokenB}}}

WarmHeaders ==
    {<<"B", "e", "a", "r", "e", "r", " ", "t", "1">>, <<"b", "e", "a", "r", "e", "r", " ", "t", "1">>, <<"B", "E", "A", "R", "E", "R", " ", "t", "1">>, <<"B", "e", "a", "r", "e", "r", " ", "T", "1">>, <<"b", "e", "a", "r", "e", "r", " ", "T", "1">>}

WarmInputs ==
    UNION {UNION {{OidcInput(HttpRequest(<<>>, <<>>, <<"8", ".", "8", ".", "8", ".", "8", ":", "8", "0">>, h), uo, po) :
                     po \in PydioOutcomes(OidcOf(Split(h, " ")[2]).Sub)} :
                    uo \in UserinfoOutcomes(Split(h, " ")[2])} :
             h \in WarmHeaders}

InitWarm ==
    /\ now \in 0..MaxTime
    /\ cache \in WarmCaches
    /\ lastSet = [t \in DOMAIN cache |-> TTL]
    /\ req = [r \in Reqs |-> NewReq]
    /\ jwksCache = {}
    /\ mutex = NewMutex
    /\ pin \in WarmInputs
    /\ pout = <<>>

SpecWarm == InitWarm /\ [][ApplyTokenRequired]_vars


(***************************************************************************)
(* The gateway with the steps of the cache's lock told apart.  A request   *)
(* has the further positions "RLock" (in Get, blocked in RLock), "Get" (in *)
(* Get, holding the read lock), "Lock" (in Set, blocked in Lock) and "Set" *)
(* (in Set, holding the write lock).  The cleanup goroutine is blocked on  *)
(* its ticker unless it is pending or inside.                              *)
(***************************************************************************)
cleanupGoroutine == 0

LockRequests ==
    {HttpRequest(<<>>, <<>>, <<"8", ".", "8", ".", "8", ".", "8", ":", "8", "0">>, <<"B", "e", "a", "r", "e", "r", " ", "t", "1">>),
     HttpRequest(<<>>, <<>>, <<"1", "0", ".", "1", ".", "2", ".", "3", ":", "4", "4", "4", "4", "4">>, <<>>)}

\* the answers of an upstream service told apart here: the call fails in
\* client.Do, or it returns 200 with the claims or the users of the owner
LockOutcomes(outcomes) ==
    {o \in outcomes :
        \/ o.kind = "transport"
        \/ o.kind = "ok" /\ o \notin {[kind |-> "ok", users |-> <<>>]}
                         /\ ("body" \in DOMAIN o => o.body.Sub # <<>>)}

\* the userinfo call of request r returns
LockUserinfoResponse(r) ==
    /\ req[r].pc = "userinfo"
    /\ \E outcome \in LockOutcomes(UserinfoOutcomes(req[r].token[1])) :
          /\ req' = [req EXCEPT ![r] = [UserinfoReturned(req[r], outcome)
                                           EXCEPT !.uo = <<outcome>>]]
    /\ UNCHANGED <<now, cache, lastSet, jwksCache, mutex, pin, pout>>

\* a request is received: it is answered at once when the handler does not
\* get as far as the cache, else it calls validateTokenAndGetUserInfo with
\* the token of its header, and that calls Get
LockReceive(r, in) ==
    /\ req[r].pc = "new"
    /\ r > 1 => req[r - 1].pc # "new"
    /\ LET q == TokenRequired(in, TrustedIPs)
       IN req' = [req EXCEPT ![r] =
                    IF q.nGet = 0 THEN q
                    ELSE [NewReq EXCEPT !.pc = "RLock", !.in = in,
                                        !.clientIP = q.clientIP, !.token = q.token]]
    /\ UNCHANGED <<now, cache, lastSet, jwksCache, mutex, pin, pout>>

\* Get: c.mutex.RLock() returns
GetRLock(r) ==
    /\ req[r].pc = "RLock"
    /\ CanRLock
    /\ mutex' = Acquire(r, "R")
    /\ req' = [req EXCEPT ![r].pc = "Get"]
    /\ UNCHANGED <<now, cache, lastSet, jwksCache, pin, pout>>

\* Get returning without the RUnlock: the request keeps the read lock
GetReturn_KeepLock(r) ==
    /\ req[r].pc = "Get"
    /\ req' = [req EXCEPT ![r] =
                  validateTokenAndGetUserInfo([@ EXCEPT !.pc = "new"], @.token[1])]
    /\ cache' = GetMap(req[r].token[1])
    /\ UNCHANGED <<now, lastSet, jwksCache, mutex, pin, pout>>

\* Get reads the map and returns, running the deferred RUnlock; the handler
\* goes on to its first suspension or to its return
GetReturn(r) ==
    /\ req[r].pc = "Get"
    /\ req' = [req EXCEPT ![r] =
                  validateTokenAndGetUserInfo([@ EXCEPT !.pc = "new"], @.token[1])]
    /\ cache' = GetMap(req[r].token[1])
    /\ mutex' = Release(r)
    /\ UNCHANGED <<now, lastSet, jwksCache, pin, pout>>

\* the directory call of request r returns; on success the request calls Set
\* and blocks in c.mutex.Lock()
LockPydioResponse(r) ==
    /\ req[r].pc = "pydio"
    /\ \E outcome \in LockOutcomes(PydioOutcomes(req[r].pydioReq[1].uuid)) :
          LET q == [PydioReturned(req[r], outcome) EXCEPT !.po = <<outcome>>]
          IN IF q.nSet > req[r].nSet
             THEN /\ req' = [req EXCEPT ![r].pc = "Lock", ![r].po = <<outcome>>]
                  /\ mutex' = [mutex EXCEPT !.pending = @ \cup {r}]
             ELSE /\ req' = [req EXCEPT ![r] = q]
                  /\ UNCHANGED mutex
    /\ UNCHANGED <<now, cache, lastSet, jwksCache, pin, pout>>

\* Set taking the read lock
SetLock_Shared(r) ==
    /\ req[r].pc = "Lock"
    /\ \A g \in DOMAIN mutex.held : mutex.held[g] = "R"
    /\ mutex' = Acquire(r, "R")
    /\ req' = [req EXCEPT ![r].pc = "Set"]
    /\ UNCHANGED <<now, cache, lastSet, jwksCache, pin, pout>>

\* Set: c.mutex.Lock() returns
SetLock(r) ==
    /\ req[r].pc = "Lock"
    /\ CanLock
    /\ mutex' = Acquire(r, "W")
    /\ req' = [req EXCEPT ![r].pc = "Set"]
    /\ UNCHANGED <<now, cache, lastSet, jwksCache, pin, pout>>

\* Set writes the entry and returns, running the deferred Unlock; the handler
\* calls next.ServeHTTP
SetReturn(r) ==
    /\ req[r].pc = "Set"
    /\ LET q == [PydioReturned(req[r], req[r].po[1]) EXCEPT !.po = req[r].po]
           token == req[r].token[1]
       IN /\ req' = [req EXCEPT ![r] = q]
          /\ cache' = Set(token, q.ctx[1])
          /\ lastSet' = [t \in DOMAIN lastSet \cup {token} |->
                           IF t = token THEN now + TTL ELSE lastSet[t]]
    /\ mutex' = Release(r)
    /\ UNCHANGED <<now, jwksCache, pin, pout>>

\* the ticker fires and the cleanup goroutine calls c.mutex.Lock()
TickerFires ==
    /\ now >= 1
    /\ cleanupGoroutine \notin DOMAIN mutex.held \cup mutex.pending
    /\ mutex' = [mutex EXCEPT !.pending = @ \cup {cleanupGoroutine}]
    /\ UNCHANGED <<now, cache, req, lastSet, jwksCache, pin, pout>>

\* cleanup: c.mutex.Lock() returns
cleanupLock ==
    /\ cleanupGoroutine \in mutex.pending
    /\ CanLock
    /\ mutex' = Acquire(cleanupGoroutine, "W")
    /\ UNCHANGED <<now, cache, req, lastSet, jwksCache, pin, pout>>

\* cleanup: the pass over the map and c.mutex.Unlock()
cleanupPass ==
    /\ cleanupGoroutine \in DOMAIN mutex.held
    /\ cache' = SweepPass
    /\ mutex' = Release(cleanupGoroutine)
    /\ UNCHANGED <<now, req, lastSet, jwksCache, pin, pout>>

NextLock ==
    \/ \E r \in Reqs, in \in LockRequests : LockReceive(r, in)
    \/ \E r \in Reqs : GetRLock(r)
    \/ \E r \in Reqs : GetReturn(r)
    \/ \E r \in Reqs : LockUserinfoResponse(r)
    \/ \E r \in Reqs : LockPydioResponse(r)
    \/ \E r \in Reqs : SetLock(r)
    \/ \E r \in Reqs : SetReturn(r)
    \/ TickerFires
    \/ cleanupLock
    \/ cleanupPass
    \/ Tick

SpecLock == Init /\ [][NextLock]_vars

\* A goroutine inside Get, Set or the pass runs to the end of it: nothing
\* there blocks.
InsideFair ==
    /\ WF_vars(cleanupPass)
    /\ \A r \in Reqs : WF_vars(GetReturn(r)) /\ WF_vars(SetReturn(r))

\* The ticker of the cleanup goroutine keeps firing, and the goroutine is
\* granted the write lock when it keeps asking for it (writers queue on the
\* mutex inside sync.RWMutex, which hands over in arrival order under
\* contention).
SpecSweepFair ==
    SpecLock /\ InsideFair /\ WF_vars(TickerFires) /\ SF_vars(cleanupLock)

\* The cache lock is granted fairly: a goroutine that keeps asking for it gets
\* it.  Nothing is assumed of the upstream services.
SpecLockFair ==
    /\ SpecLock /\ InsideFair /\ SF_vars(cleanupLock)
    /\ \A r \in Reqs : SF_vars(GetRLock(r)) /\ SF_vars(SetLock(r))

(***************************************************************************)
(* Properties.                                                             *)
(***************************************************************************)
\* the request went through the cache check with this token
Looked(q, token) == q.nGet = 1 /\ q.token = <<token>>

\* the gateway let the request through to the downstream handler
Passed(q) == q.pc = "done" /\ q.nNext = 1 /\ q.w = NoResponse

\* the gateway answered the request itself with 401
Rejected(q) == q.pc = "done" /\ q.nNext = 0 /\ q.w.status = 401

\* C1: a request whose token has no cache entry and whose two upstream calls
\* succeed makes exactly one userinfo call and one directory call; a request
\* whose token has an entry that the clock has not reached the expiry of makes
\* no upstream call and carries the identity of that entry.
C1_FirstValidatesThenCacheHit ==
    [][\A r \in Reqs :
        LET q == req'[r]
        IN /\ (q.pc = "done" /\ q.nNext = 1 /\ q.nGet = 1 /\ ~q.present)
                => (q.nUserinfo = 1 /\ q.nPydio = 1)
           /\ (/\ req[r].pc = "new"
               /\ q.nGet = 1
               /\ q.token[1] \in DOMAIN cache
               /\ now < cache[q.token[1]].ExpiresAt)
                => /\ Passed(q)
                   /\ q.nUserinfo = 0
                   /\ q.nPydio = 0
                   /\ GetUserInfo(q) = <<cache[q.token[1]].UserInfo>>]_vars

\* C1 witness: the first request with token t1 validated upstream with two
\* calls, the second one with the same token was served from the cache
C1_Witness ==
    /\ Looked(req[1], tokenA) /\ Passed(req[1]) /\ req[1].seen = "never"
    /\ req[1].nUserinfo = 1 /\ req[1].nPydio = 1
    /\ Looked(req[2], tokenA) /\ Passed(req[2]) /\ req[2].seen = "before"
    /\ req[2].hit /\ req[2].nUserinfo = 0 /\ req[2].nPydio = 0
    /\ GetUserInfo(req[2]) = GetUserInfo(req[1])

\* C2: a request that looks its token up after the clock has passed the expiry
\* of the token's entry misses, whether the entry is still in the map or was
\* swept, and runs the upstream validation: one userinfo call, and when it is
\* let through also one directory call and one store.
C2_ExpiredRevalidates ==
    \A r \in Reqs :
        req[r].seen = "after"
            => /\ ~req[r].hit
               /\ req[r].nUserinfo = 1
               /\ req[r].pc = "userinfo" => req[r].nPydio = 0
               /\ req[r].pc = "pydio" => req[r].nPydio = 1
               /\ req[r].pc = "done"
                    => \/ Rejected(req[r]) /\ req[r].nSet = 0
                       \/ Passed(req[r]) /\ req[r].nPydio = 1 /\ req[r].nSet = 1

\* C2 witness: the entry of t1 is past its expiry and still in the map when the
\* second request looks it up; the request validates upstream again
C2_Witness ==
    /\ Looked(req[1], tokenA) /\ Passed(req[1]) /\ req[1].nSet = 1
    /\ Looked(req[2], tokenA) /\ req[2].seen = "after" /\ req[2].present
    /\ Passed(req[2]) /\ req[2].nUserinfo = 1 /\ req[2].nPydio = 1

\* C3 as claimed: Get finds an entry only while the clock is strictly before
\* the entry's expiry.
C3_HitOnlyBeforeExpiry ==
    \A r \in Reqs : req[r].hit => req[r].present /\ req[r].seen = "before"

\* C3 as amended: Get finds an entry only when it is in the map and the clock is
\* not after its expiry (now <= expiry); at now = expiry the entry is returned.
C3_HitOnlyUntilExpiry ==
    \A r \in Reqs :
        /\ req[r].hit => req[r].present /\ req[r].seen \in {"before", "at"}
        /\ (req[r].nGet = 1 /\ req[r].present /\ req[r].seen = "at") => req[r].hit

\* C3 witness: an entry returned at the very instant of its expiry
C3_Witness ==
    \E r \in Reqs : req[r].hit /\ req[r].seen = "at" /\ Passed(req[r])

\* the state in which the handler left the request of pin
Handled == pout[1]

\* C4: isIPTrusted is true exactly when the client address parses and lies in
\* the range of some entry (a bare address is the range of that one address, a
\* CIDR the range of its network); the request is let through with the
\* trusted identity in that case and in no other.
C4_TrustedIffInRange ==
    pout # <<>> =>
        LET c == getClientIP(pin.r)
        IN IF InSomeRange(c, pin.trusted)
           THEN /\ isIPTrusted(c, pin.trusted)
                /\ Passed(Handled) /\ Handled.nGet = 0
                /\ GetUserInfo(Handled) = <<trustedUserInfo(c)>>
           ELSE /\ ~isIPTrusted(c, pin.trusted)
                /\ Handled.nNext = 0

\* C4 witness: 172.31.255.255 is the last address of 172.16.0.0/12 and is let
\* through without a header
C4_Witness ==
    /\ pout # <<>>
    /\ getClientIP(pin.r) = <<"1", "7", "2", ".", "3", "1", ".", "2", "5", "5", ".", "2", "5", "5">>
    /\ pin.trusted = <<<<"b", "o", "g", "u", "s">>, <<"1", "7", "2", ".", "1", "6", ".", "0", ".", "0", "/", "1", "2">>>>
    /\ pin.r.auth = <<>>
    /\ Passed(Handled)

\* C5: when the client address does not parse, the trusted list is empty, or
\* no entry contains the address, isIPTrusted is false and the request is not
\* let through for its address: it is answered 401 for its header or goes on
\* to the validation of its bearer token.
C5_FailsClosed ==
    pout # <<>> =>
        LET c == getClientIP(pin.r)
        IN (\/ ParseIP(c) = NoIP
            \/ Len(pin.trusted) = 0
            \/ ~InSomeRange(c, pin.trusted))
            => /\ ~isIPTrusted(c, pin.trusted)
               /\ Handled.nNext = 0
               /\ GetUserInfo(Handled) = <<>>
               /\ \/ Rejected(Handled) /\ Handled.nGet = 0
                  \/ Handled.pc = "userinfo" /\ Handled.nGet = 1

\* C5 witness: an address that does not parse, against a list with entries,
\* goes on to the validation of its token
C5_Witness ==
    /\ pout # <<>>
    /\ getClientIP(pin.r) = <<"i", "n", "v", "a", "l", "i", "d", "-", "i", "p">>
    /\ pin.trusted = TrustedIPs
    /\ ~isIPTrusted(getClientIP(pin.r), pin.trusted)
    /\ Handled.pc = "userinfo"
    /\ Handled.token = <<tokenA>>

\* the requests of the clients whose resolved address is trusted by the server
TrustedRequests == {in \in Requests : isIPTrusted(getClientIP(in), TrustedIPs)}

\* C6: a request from a trusted address is let through exactly once with the
\* identity "trusted-ip:<address>" and its one fixed role, whatever its
\* Authorization header, with no cache lookup and no upstream call.
C6_TrustedBypass ==
    \A r \in Reqs :
        (req[r].pc # "new" /\ req[r].in \in TrustedRequests)
            => /\ Passed(req[r])
               /\ Len(GetUserInfo(req[r])) = 1
               /\ GetUserInfo(req[r])[1].Sub = <<"t", "r", "u", "s", "t", "e", "d", "-", "i", "p", ":">> \o getClientIP(req[r].in)
               /\ GetUserInfo(req[r])[1].Roles
                    = <<[Label |-> <<"t", "r", "u", "s", "t", "e", "d">>, UUID |-> <<"t", "r", "u", "s", "t", "e", "d", "-", "r", "o", "l", "e">>]>>
               /\ req[r].nGet = 0 /\ req[r].nSet = 0
               /\ req[r].nUserinfo = 0 /\ req[r].nPydio = 0

\* C6 witness: 10.1.2.3 is let through once without a header and once with a
\* valid bearer header, neither time touching the cache
C6_Witness ==
    /\ req[1].in = HttpRequest(<<>>, <<>>, <<"1", "0", ".", "1", ".", "2", ".", "3", ":", "4", "4", "4", "4", "4">>, <<>>)
    /\ req[2].in = HttpRequest(<<>>, <<>>, <<"1", "0", ".", "1", ".", "2", ".", "3", ":", "4", "4", "4", "4", "4">>, <<"B", "e", "a", "r", "e", "r", " ", "t", "1">>)
    /\ \A r \in {1, 2} :
          /\ Passed(req[r])
          /\ GetUserInfo(req[r])[1].Sub = <<"t", "r", "u", "s", "t", "e", "d", "-", "i", "p", ":", "1", "0", ".", "1", ".", "2", ".", "3">>
          /\ req[r].nGet = 0

\* C7: a request ends in exactly one of two ways: the downstream handler was
\* called once with an identity in the context and the gateway wrote nothing,
\* or the gateway wrote an error and the downstream handler was not called and
\* no identity was attached; before it ends neither has happened.
C7_PassXorReject ==
    \A r \in Reqs :
        IF req[r].pc = "done"
        THEN \/ Passed(req[r]) /\ GetUserInfo(req[r]) # <<>>
             \/ Rejected(req[r]) /\ GetUserInfo(req[r]) = <<>>
        ELSE req[r].nNext = 0 /\ req[r].w = NoResponse /\ GetUserInfo(req[r]) = <<>>

\* C7 witness: one request was let through after a fresh validation, the other
\* was answered 401 after its directory call failed
C7_Witness ==
    /\ Passed(req[1]) /\ req[1].nSet = 1
    /\ Rejected(req[2]) /\ req[2].nPydio = 1 /\ req[2].err = "pydio request failed: connection refused"

\* C8: a request that reached the downstream handler carries an identity with
\* a non-empty subject, and so does every cache entry.
C8_SubjectNeverEmpty ==
    /\ \A r \in Reqs :
          req[r].nNext >= 1
            => GetUserInfo(req[r]) # <<>> /\ GetUserInfo(req[r])[1].Sub # <<>>
    /\ \A t \in DOMAIN cache : cache[t].UserInfo.Sub # <<>>

\* C8 witness: a userinfo response without a subject was refused while another
\* request was validated and cached
C8_Witness ==
    /\ \E r \in Reqs : req[r].err = "user UUID not found in OIDC user info"
    /\ \E r \in Reqs : Passed(req[r]) /\ req[r].nSet = 1
    /\ DOMAIN cache # {}

\* number of spaces of a string
RECURSIVE CountSpaces(_)
CountSpaces(s) == IF Len(s) = 0 THEN 0
                  ELSE (IF s[1] = " " THEN 1 ELSE 0) + CountSpaces(Tail(s))

\* the header reads <scheme> <rest> with one space in all and the scheme being
\* "bearer" in any letter case
BearerShaped(h) ==
    /\ CountSpaces(h) = 1
    /\ ToLower(SubSeq(h, 1, IndexChar(h, " ") - 1)) = <<"b", "e", "a", "r", "e", "r">>

\* C9: for an untrusted client the header is accepted exactly when it is two
\* space-separated parts with the scheme "bearer" in any case; an empty header
\* is answered as missing, any other shape as invalid format, both without a
\* cache lookup or an upstream call.
C9_HeaderShapes ==
    (pout # <<>> /\ ~isIPTrusted(getClientIP(pin.r), pin.trusted)) =>
        LET h == pin.r.auth
        IN /\ BearerShaped(h) <=> Handled.nGet = 1
           /\ h = <<>> =>
                /\ Rejected(Handled)
                /\ Handled.w.msg = "Missing authorization header"
           /\ (h # <<>> /\ ~BearerShaped(h)) =>
                /\ Rejected(Handled)
                /\ Handled.w.msg = "Invalid Authorization header format"
           /\ ~BearerShaped(h) =>
                /\ Handled.nGet = 0
                /\ Handled.nUserinfo = 0
                /\ Handled.token = <<>>

\* C9 witness: two spaces between scheme and token make three parts
C9_Witness ==
    /\ pout # <<>>
    /\ pin.r.auth = <<"B", "e", "a", "r", "e", "r", " ", " ", "t", "1">>
    /\ Rejected(Handled)
    /\ Handled.w.msg = "Invalid Authorization header format"

\* C10: a header with the bearer scheme and an empty token is answered as
\* invalid format and reaches neither the cache nor the userinfo endpoint.
C10_EmptyTokenRejected ==
    (/\ pout # <<>>
     /\ ~isIPTrusted(getClientIP(pin.r), pin.trusted)
     /\ ToLower(pin.r.auth) = <<"b", "e", "a", "r", "e", "r", " ">>)
        => /\ Rejected(Handled)
           /\ Handled.w.msg = "Invalid Authorization header format"
           /\ Handled.nGet = 0
           /\ Handled.nUserinfo = 0


(***************************************************************************)
(* Status codes and messages.                                              *)
(***************************************************************************)
\* why the OIDC middleware does not let the request of input i through, told
\* from the request and from what the upstream services answer; "none" when
\* nothing stands in its way
OidcFailure(i) ==
    IF InSomeRange(getClientIP(i.r), i.trusted) THEN "none"
    ELSE IF i.r.auth = <<>> THEN "missing header"
    ELSE IF ~BearerShaped(i.r.auth) THEN "invalid format"
    ELSE IF i.uo.kind \in {"transport", "truncated"} THEN "transport failure"
    ELSE IF i.uo.kind = "status" THEN "provider rejection"
    ELSE IF i.uo.kind = "undecodable" THEN "undecodable body"
    ELSE IF i.uo.body.Sub = <<>> THEN "empty subject"
    ELSE IF i.po.kind # "ok" THEN "directory failure"
    ELSE IF Len(i.po.users) = 0 THEN "zero directory users"
    ELSE "none"

\* the "roles" claim is an array of strings
WellFormedRoles(v) == v.list /\ \A k \in 1..Len(v.items) : v.items[k].str

\* the same for the JWT middleware, told from the header and from what the
\* library answers; keys tells whether the issuer's key set can be had
JwtFailure(i, keys) ==
    IF \/ Len(i.hdr) < 7
       \/ SubSeq(i.hdr, 1, 7) # <<"B", "e", "a", "r", "e", "r", " ">> THEN "missing header"
    ELSE IF Len(Split(SubSeq(i.hdr, 8, Len(i.hdr)), ".")) # 3 \/ ~i.tok.parse
    THEN "invalid format"
    ELSE IF i.tok.iss = <<>> THEN "missing issuer"
    ELSE IF ~keys THEN "transport failure"
    ELSE IF ~i.tok.verify THEN "provider rejection"
    ELSE IF i.tok.roles = <<>> THEN "none"
    ELSE IF ~WellFormedRoles(i.tok.roles[1]) THEN "malformed roles"
    ELSE IF \E k \in 1..Len(i.tok.roles[1].items) :
               i.tok.roles[1].items[k].val = <<"a", "d", "m", "i", "n">> THEN "none"
    ELSE "insufficient role"

FailureOf(i) ==
    IF i.variant = "oidc" THEN OidcFailure(i)
    ELSE JwtFailure(i, i.tok.iss \in jwksCache)

AuthenticationFailures ==
    {"missing header", "invalid format", "missing issuer", "transport failure",
     "provider rejection", "undecodable body", "empty subject",
     "directory failure", "zero directory users"}

FailedValidation(q) == Rejected(q) /\ q.nGet = 1

\* C12 as claimed: any two rejected requests received the same status and the
\* same message.
C12_SameResponseForAll ==
    \A r1, r2 \in Reqs :
        Rejected(req[r1]) /\ Rejected(req[r2]) => req[r1].w = req[r2].w

\* C12 as amended: every rejected request is answered 401 with one of three
\* fixed messages, chosen by where the request stopped: an empty header,
\* another header that is not a bearer header, or a failed validation; all
\* failed validations receive the same message whatever the upstream services
\* answered and whatever the error was.
C12_MessageByStageOnly ==
    /\ \A r \in Reqs :
          Rejected(req[r]) =>
              req[r].w = [status |-> 401,
                          msg |-> IF req[r].in.auth = <<>>
                                  THEN "Missing authorization header"
                                  ELSE IF req[r].nGet = 0
                                  THEN "Invalid Authorization header format"
                                  ELSE "Invalid or expired token"]
    /\ \A r1, r2 \in Reqs :
          FailedValidation(req[r1]) /\ FailedValidation(req[r2])
              => req[r1].w = req[r2].w

\* C12 witness: one request failed on a non-200 userinfo answer, the other on
\* a directory answer without users, with different errors and the same
\* response
C12_Witness ==
    /\ FailedValidation(req[1]) /\ req[1].uo[1].kind = "status"
    /\ FailedValidation(req[2]) /\ req[2].po # <<>>
    /\ req[2].po[1].kind = "ok" /\ req[2].po[1].users = <<>>
    /\ req[1].err # req[2].err
    /\ req[1].w = req[2].w

\* C13: a request whose userinfo call returned a non-200 status or a body that
\* does not decode has ended with an error value, was answered 401, carries no
\* identity, and made no directory call and no store.
C13_UserinfoRejectedNoDirectory ==
    \A r \in Reqs :
        (req[r].uo # <<>> /\ req[r].uo[1].kind \in {"status", "undecodable"})
            => /\ Rejected(req[r])
               /\ req[r].err # ""
               /\ GetUserInfo(req[r]) = <<>>
               /\ req[r].nPydio = 0 /\ req[r].nSet = 0 /\ req[r].po = <<>>

\* C13 witness: the userinfo call of a bearer request answered 500
C13_Witness ==
    /\ Looked(req[1], tokenA)
    /\ req[1].uo # <<>> /\ req[1].uo[1].kind = "status"
    /\ Rejected(req[1]) /\ req[1].nUserinfo = 1 /\ req[1].nPydio = 0
    /\ req[1].err = "userinfo request failed with status: 500"

\* C14: when the directory call of a request succeeds with zero users, the
\* request ends rejected with 401 and the error "user not found", no identity
\* is attached, and the step stores nothing: the cache is as it was.
C14_ZeroUsersUserNotFound ==
    [][\A r \in Reqs :
          (/\ req[r].pc = "pydio"
           /\ req'[r].po # <<>>
           /\ req'[r].po[1].kind = "ok"
           /\ Len(req'[r].po[1].users) = 0)
              => /\ Rejected(req'[r])
                 /\ req'[r].err = "user not found in Pydio Cells"
                 /\ GetUserInfo(req'[r]) = <<>>
                 /\ req'[r].nSet = 0
                 /\ req'[r].nUserinfo = 1 /\ req'[r].uo[1].kind = "ok"
                 /\ cache' = cache]_vars

\* C14 witness: the userinfo call succeeded, the directory found no user, and
\* the token has no cache entry
C14_Witness ==
    /\ Looked(req[1], tokenA)
    /\ req[1].uo # <<>> /\ req[1].uo[1].kind = "ok"
    /\ req[1].po # <<>> /\ req[1].po[1].kind = "ok" /\ req[1].po[1].users = <<>>
    /\ Rejected(req[1])
    /\ tokenA \notin DOMAIN cache

\* an upstream call of the request failed in transport: connection failure or
\* timeout, before the response or while its body was read
Unavailable(q) ==
    \/ q.uo # <<>> /\ q.uo[1].kind \in {"transport", "truncated"}
    \/ q.po # <<>> /\ q.po[1].kind \in {"transport", "truncated"}

\* the userinfo call of the request returned a non-200 status or a body that
\* does not decode
Invalid(q) == q.uo # <<>> /\ q.uo[1].kind \in {"status", "undecodable"}

Authoritative(token) ==
    MergeUserInfo(PydioOf(OidcOf(token).Sub)[1], OidcOf(token))

\* the requests that looked tokenA up when it had never been stored: they
\* ran concurrently, each past its cache read before any cache write
Uncached(rq) == {r \in Reqs : Looked(rq[r], tokenA) /\ rq[r].seen = "never"}

\* C16: at the step by which the last of the requests that concurrently bore
\* the uncached token t1 finishes, all of them let through, the cache holds
\* the entry of t1, the entry has not expired, and its identity is the one the
\* upstream services return for t1.
C16_OneValidEntryAfterRace ==
    [][(/\ Uncached(req') # {}
        /\ \A r \in Uncached(req') : Passed(req'[r])
        /\ \E r \in Uncached(req') : req[r].pc # "done")
          => /\ tokenA \in DOMAIN cache'
             /\ ~After(now', cache'[tokenA].ExpiresAt)
             /\ cache'[tokenA].UserInfo = Authoritative(tokenA)
             /\ \A r \in Uncached(req') :
                   GetUserInfo(req'[r]) = <<Authoritative(tokenA)>>]_vars

\* C16 witness: two requests both missed the cache for t1, both validated
\* upstream and both stored; the second store came after the first had
\* expired and been swept, and the cache holds the one entry of t1
C16_Witness ==
    /\ Uncached(req) = {1, 2}
    /\ \A r \in {1, 2} : Passed(req[r]) /\ req[r].nSet = 1 /\ req[r].nPydio = 1
    /\ DOMAIN cache = {tokenA}
    /\ cache[tokenA] = CacheEntry(Authoritative(tokenA), now + TTL)
    /\ now > TTL

\* s without the white space around it: from its first to its last character
\* that is not white space
Trimmed(s) ==
    LET inner == {i \in 1..Len(s) : ~IsSpace(s[i])}
    IN IF inner = {} THEN <<>>
       ELSE SubSeq(s, CHOOSE i \in inner : \A j \in inner : i <= j,
                      CHOOSE i \in inner : \A j \in inner : i >= j)

\* the text of s before its first comma, all of s when it has none
FirstElement(s) ==
    LET commas == {i \in 1..Len(s) : s[i] = ","}
    IN IF commas = {} THEN s
       ELSE SubSeq(s, 1, (CHOOSE i \in commas : \A j \in commas : i <= j) - 1)

\* the host of a transport address host:port or [host]:port; an address
\* without a port is its own host
HostPortion(addr) ==
    LET colons == {i \in 1..Len(addr) : addr[i] = ":"}
        last == CHOOSE i \in colons : \A j \in colons : i >= j
    IN IF colons = {} THEN addr
       ELSE IF addr[1] = "[" THEN SubSeq(addr, 2, last - 2)
       ELSE SubSeq(addr, 1, last - 1)

\* C17: the client address is the trimmed first comma-separated element of
\* X-Forwarded-For when that header is not empty, whatever X-Real-IP and the
\* transport address are; else the trimmed X-Real-IP when that is not empty;
\* else the host portion of the transport address.
C17_ClientIPPrecedence ==
    pout # <<>> =>
        Handled.clientIP =
            IF pin.r.xff # <<>> THEN Trimmed(FirstElement(pin.r.xff))
            ELSE IF pin.r.xri # <<>> THEN Trimmed(pin.r.xri)
            ELSE HostPortion(pin.r.remoteAddr)

\* C17 witness: X-Forwarded-For " 10.1.2.3 ,8.8.8.8" wins over X-Real-IP
\* 127.0.0.1 and the transport address 8.8.8.8:80
C17_Witness ==
    /\ pout # <<>>
    /\ pin.r = HttpRequest(<<" ", "1", "0", ".", "1", ".", "2", ".", "3", " ", ",", "8", ".", "8", ".", "8", ".", "8">>, <<"1", "2", "7", ".", "0", ".", "0", ".", "1">>, <<"8", ".", "8", ".", "8", ".", "8", ":", "8", "0">>, <<>>)
    /\ Handled.clientIP = <<"1", "0", ".", "1", ".", "2", ".", "3">>
    /\ GetUserInfo(Handled) = <<trustedUserInfo(<<"1", "0", ".", "1", ".", "2", ".", "3">>)>>

\* C18: the identity of a request let through after a validation has subject,
\* email, name and preferred username of the userinfo response and login,
\* UUID, group path and roles of the first user of the directory response,
\* also when that user's record carries other values in the first four.
C18_MergeSources ==
    \A r \in Reqs :
        (Passed(req[r]) /\ req[r].nSet = 1) =>
            LET id == GetUserInfo(req[r])[1]
                oidc == req[r].uo[1].body
                user == req[r].po[1].users[1]
            IN /\ id.Sub = oidc.Sub /\ id.Email = oidc.Email
               /\ id.Name = oidc.Name /\ id.PreferredName = oidc.PreferredName
               /\ id.Login = user.Login /\ id.UUID = user.UUID
               /\ id.GroupPath = user.GroupPath /\ id.Roles = user.Roles

\* C18 witness: the directory answered two users for u1, the first with
\* subject p1 and email a@p; the identity has subject u1, email a@x and the
\* first user's login and roles
C18_Witness ==
    /\ Passed(req[1]) /\ req[1].nSet = 1
    /\ Len(req[1].po[1].users) = 2
    /\ req[1].po[1].users[1].Sub = <<"p", "1">>
    /\ req[1].po[1].users[1].Email = <<"a", "@", "p">>
    /\ GetUserInfo(req[1])[1].Sub = <<"u", "1">>
    /\ GetUserInfo(req[1])[1].Email = <<"a", "@", "x">>
    /\ GetUserInfo(req[1])[1].Login = <<"a", "n", "n">>
    /\ Len(GetUserInfo(req[1])[1].Roles) = 2

\* C19: the step in which a request stores its identity leaves the cache
\* mapping the request's token to that identity with expiry five minutes
\* after the current time, whatever the token's entry was before, and leaves
\* the entry of every other token as it was.
C19_SetOverwritesOneEntry ==
    [][\A r \in Reqs :
          req'[r].nSet > req[r].nSet =>
              LET token == req'[r].token[1]
              IN /\ DOMAIN cache' = DOMAIN cache \cup {token}
                 /\ cache'[token].UserInfo = GetUserInfo(req'[r])[1]
                 /\ cache'[token].ExpiresAt = now + 5
                 /\ \A t \in DOMAIN cache \ {token} : cache'[t] = cache[t]]_vars

\* C19 witness: t1 was stored, and two minutes or more later stored again by
\* a request that had missed the cache with the first: the entry expires five
\* minutes after the second store
C19_Witness ==
    /\ Uncached(req) = {1, 2}
    /\ \A r \in {1, 2} : req[r].nSet = 1
    /\ now \in 2..TTL
    /\ cache[tokenA] = CacheEntry(Authoritative(tokenA), now + 5)

\* C20: the step in which a request looks its token up leaves the cache as it
\* was, entries and expiries, whether the lookup finds no entry, an entry that
\* has expired, or an entry it returns.
C20_GetLeavesCache ==
    [][\A r \in Reqs : req'[r].nGet > req[r].nGet => cache' = cache]_vars

\* C20 witness: the lookup met the expired entry of t1, missed, and the entry
\* is still in the map
C20_Witness ==
    /\ Looked(req[2], tokenA)
    /\ req[2].seen = "after" /\ req[2].present /\ ~req[2].hit
    /\ req[2].pc = "userinfo"
    /\ tokenA \in DOMAIN cache
    /\ After(now, cache[tokenA].ExpiresAt)

(***************************************************************************)
(* Claims C21 to C30.                                                      *)
(***************************************************************************)

\* C21: a pass of the sweep (the only step that leaves every request and the
\* clock as they were) removes exactly the entries whose expiry is earlier
\* than the clock reading and leaves every other entry as it was; and no
\* step of any interleaving of lookups, stores and passes takes away an
\* entry that is not expired at that step, one just stored again included.
C21_SweepRemovesExactlyExpired ==
    [][/\ (req' = req /\ now' = now) =>
             /\ DOMAIN cache' = {t \in DOMAIN cache : ~(cache[t].ExpiresAt < now)}
             /\ \A t \in DOMAIN cache' : cache'[t] = cache[t]
       /\ \A t \in DOMAIN cache \ DOMAIN cache' : cache[t].ExpiresAt < now
       /\ \A t \in DOMAIN cache : cache[t].ExpiresAt = lastSet[t]]_vars

\* C21 witness: t1 was stored and left to expire, T1 was stored after it and
\* is at the very minute of its expiry; a pass has removed t1 and left T1
C21_Witness ==
    /\ DOMAIN lastSet = {tokenA, tokenB}
    /\ DOMAIN cache = {tokenB}
    /\ lastSet[tokenA] < now
    /\ cache[tokenB] = CacheEntry(Authoritative(tokenB), now)

\* C22: once the context of an inbound request is done while its upstream
\* call is in flight, that call is cancelled: the only step the request still
\* takes is to its end, without consuming an upstream answer, without a
\* further upstream call and without a cache write.
C22_CancelStopsPipeline ==
    [][\A r \in Reqs :
          (req[r].ctxDone /\ req'[r] # req[r]) =>
              /\ req'[r].pc = "done"
              /\ req'[r].uo = req[r].uo /\ req'[r].po = req[r].po
              /\ req'[r].nUserinfo = req[r].nUserinfo
              /\ req'[r].nPydio = req[r].nPydio
              /\ req'[r].nSet = req[r].nSet
              /\ cache' = cache]_vars

\* the token of a header of the shape scheme, one space, token
RawToken(h) == SubSeq(h, IndexChar(h, " ") + 1, Len(h))

\* C23: the cache is keyed by the token exactly as the header carries it,
\* whatever the case of the scheme word: the lookup hits exactly when that
\* very token has an unexpired entry and then yields the identity last stored
\* under it with no upstream call; the entry of a token that differs in any
\* character, be it only in case, is neither read nor changed; and a store
\* writes the entry of that very token.
C23_KeyIsRawToken ==
    [][pout' # pout =>
          LET q == pout'[1]
              T == RawToken(pin.r.auth)
          IN /\ q.nGet = 1 /\ q.token = <<T>>
             /\ q.hit = (T \in DOMAIN cache /\ now <= cache[T].ExpiresAt)
             /\ q.hit => /\ Passed(q)
                         /\ GetUserInfo(q) = <<cache[T].UserInfo>>
                         /\ q.nUserinfo = 0 /\ q.nPydio = 0 /\ q.nSet = 0
                         /\ cache' = cache
             /\ ~q.hit => q.nUserinfo = 1
             /\ \A u \in DOMAIN cache \ {T} :
                    u \in DOMAIN cache' /\ cache'[u] = cache[u]
             /\ q.nSet = 1 => /\ T \in DOMAIN cache'
                              /\ cache'[T] = CacheEntry(GetUserInfo(q)[1], now + TTL)
             /\ q.nSet = 0 => cache' = cache]_vars

\* C23 witness: the cache held t1 with the identity stored when the owner's
\* group was "/old" and T1 with another identity; a request with the header
\* "bearer t1" was let through with the stored identity of t1
C23_Witness ==
    /\ pout # <<>>
    /\ pin.r.auth = <<"b", "e", "a", "r", "e", "r", " ", "t", "1">>
    /\ DOMAIN cache = {tokenA, tokenB}
    /\ Handled.hit /\ Passed(Handled)
    /\ GetUserInfo(Handled) = <<cache[tokenA].UserInfo>>
    /\ cache[tokenA].UserInfo.GroupPath = <<"/", "o", "l", "d">>
    /\ cache[tokenA].UserInfo # cache[tokenB].UserInfo

\* the request was let through for its address alone
Bypassed(q) ==
    /\ Passed(q)
    /\ q.nGet = 0 /\ q.nUserinfo = 0
    /\ GetUserInfo(q) = <<trustedUserInfo(q.clientIP)>>

\* the entries of a trusted list that denote a range, in their order
ValidEntries(trustedIPs) == SelectSeq(trustedIPs, LAMBDA e : EntryRange(e).ok)

\* C24: with a list that holds entries that denote no address or network,
\* wherever they sit, isIPTrusted answers, and the handler decides, as with
\* the list without them.
C24_InvalidEntriesIgnored ==
    pout # <<>> =>
        /\ isIPTrusted(getClientIP(pin.r), pin.trusted)
              = isIPTrusted(getClientIP(pin.r), ValidEntries(pin.trusted))
        /\ Bypassed(Handled)
              = Bypassed(TokenRequired(pin.r, ValidEntries(pin.trusted)))

\* C24 witness: the list is an entry that does not parse followed by a
\* network that holds the client, and the client was let through
C24_Witness ==
    /\ pout # <<>>
    /\ Len(pin.trusted) = 2
    /\ ~EntryRange(pin.trusted[1]).ok
    /\ pin.trusted[2] = <<"1", "0", ".", "0", ".", "0", ".", "0", "/", "8">>
    /\ Bypassed(Handled)

\* the upstream answer is a 200 whose body decoded
Answered(o) == o # <<>> /\ o[1].kind = "ok"

\* C25: a request looks its token up at most once and before any upstream
\* call, calls the userinfo endpoint at most once and only after a miss, calls
\* the directory at most once, only on a 200 userinfo answer with a subject,
\* with that subject and the bearer token of the userinfo call, and stores at
\* most once, the merged identity, only when both calls succeeded and the
\* directory returned a user; a call that failed ends the request, it is
\* never sent again.
C25_PipelineOrder ==
    [][\A r \in Reqs :
          LET a == req[r]
              b == req'[r]
          IN /\ b.nGet <= 1 /\ b.nUserinfo <= b.nGet /\ b.nPydio <= b.nUserinfo
             /\ b.nSet <= b.nPydio
             /\ a.pc = "done" => b = a
             /\ b.nUserinfo > a.nUserinfo =>
                   /\ a.pc = "new" /\ b.nGet = 1 /\ ~b.hit
                   /\ b.userinfoReq = <<UpstreamRequest(b.token[1], <<>>)>>
                   /\ a.nPydio = 0 /\ a.nSet = 0
             /\ b.nPydio > a.nPydio =>
                   /\ a.pc = "userinfo" /\ Answered(b.uo)
                   /\ b.uo[1].body.Sub # <<>>
                   /\ b.pydioReq = <<[auth |-> a.userinfoReq[1].auth,
                                      uuid |-> b.uo[1].body.Sub]>>
                   /\ b.pydioReq[1].auth = <<"B", "e", "a", "r", "e", "r", " ">> \o RawToken(b.in.auth)
                   /\ a.nSet = 0
             /\ b.nSet > a.nSet =>
                   /\ a.pc = "pydio" /\ Answered(b.uo) /\ Answered(b.po)
                   /\ Len(b.po[1].users) >= 1
                   /\ GetUserInfo(b) = <<MergeUserInfo(b.po[1].users[1], b.uo[1].body)>>
                   /\ cache'[b.token[1]].UserInfo = GetUserInfo(b)[1]
             /\ (a.pc = "userinfo" /\ b # a /\ ~Answered(b.uo)) =>
                   /\ Rejected(b) /\ b.nUserinfo = 1 /\ b.nPydio = 0 /\ b.nSet = 0
             /\ (a.pc = "pydio" /\ b # a /\ ~Answered(b.po)) =>
                   /\ Rejected(b) /\ b.nPydio = 1 /\ b.nSet = 0]_vars

\* C25 witness: a request went through all five steps, each once, the
\* directory asked for subject u1 with the bearer token t1
C25_Witness ==
    /\ Passed(req[1])
    /\ req[1].nGet = 1 /\ req[1].nUserinfo = 1 /\ req[1].nPydio = 1 /\ req[1].nSet = 1
    /\ req[1].userinfoReq = <<[auth |-> <<"B", "e", "a", "r", "e", "r", " ", "t", "1">>, uuid |-> <<>>]>>
    /\ req[1].pydioReq = <<[auth |-> <<"B", "e", "a", "r", "e", "r", " ", "t", "1">>, uuid |-> <<"u", "1">>]>>
    /\ tokenA \in DOMAIN cache

\* the goroutines inside a section that writes the map: Set and the sweep
Writers ==
    {r \in Reqs : req[r].pc = "Set"}
    \cup {g \in {cleanupGoroutine} : g \in DOMAIN mutex.held}

\* the requests inside Get
Readers == {r \in Reqs : req[r].pc = "Get"}

\* C26: at most one goroutine is inside Set or the sweep, and then no request
\* is inside Get; a request holds the cache lock only inside Get or Set, so
\* never while it is suspended in an upstream call.
C26_LockDiscipline ==
    /\ Cardinality(Writers) <= 1
    /\ Writers # {} => Readers = {}
    /\ \A r \in Reqs :
          /\ r \in DOMAIN mutex.held <=> req[r].pc \in {"Get", "Set"}
          /\ req[r].pc \in {"userinfo", "pydio"} => r \notin mutex.pending

\* C26 witness: two requests are inside Get at the same time
C26_Witness ==
    /\ Readers = {1, 2}
    /\ mutex.held[1] = "R" /\ mutex.held[2] = "R"


\* the entry of token t is in the map and the clock is past its expiry
Expired(t) == t \in DOMAIN cache /\ cache[t].ExpiresAt < now

\* C27: with the ticker firing and the sweep granted the write lock, the
\* entry of t1, once the clock is past its expiry, is in the end removed,
\* unless a store gave the token a new expiry first; and only a pass of the sweep ever takes an
\* entry out of the map.
C27_ExpiredEventuallyRemoved ==
    /\ Expired(tokenA) ~> ~Expired(tokenA)
    /\ [][DOMAIN cache \ DOMAIN cache' # {} =>
             /\ cleanupGoroutine \in DOMAIN mutex.held
             /\ cleanupGoroutine \notin DOMAIN mutex'.held
             /\ req' = req]_vars

\* C27 witness: t1 was stored, the clock went past its expiry, and a pass has
\* removed the entry
C27_Witness ==
    /\ tokenA \in DOMAIN lastSet
    /\ lastSet[tokenA] < now
    /\ tokenA \notin DOMAIN cache
    /\ cleanupGoroutine \notin DOMAIN mutex.held

\* C28: a step of a request changes the cache only when it is the store
\* after a userinfo answer and a directory answer that both succeeded, the
\* directory with a user, and then only the entry of the request's token;
\* a bypass, a cache hit and a failure at any stage leave the cache as it
\* was.  So a request whose token was rejected before and never stored
\* misses the cache and calls the userinfo endpoint again.
C28_CacheChangesOnlyAtStore ==
    [][\A r \in Reqs :
          LET a == req[r]
              b == req'[r]
          IN b # a =>
                /\ b.nSet = a.nSet => cache' = cache
                /\ (Bypassed(b) \/ b.hit \/ Rejected(b)) => cache' = cache
                /\ cache' # cache =>
                      /\ a.pc = "pydio" /\ b.nSet = a.nSet + 1 /\ Passed(b)
                      /\ Answered(b.uo) /\ Answered(b.po)
                      /\ Len(b.po[1].users) >= 1
                      /\ \A t \in DOMAIN cache \ {b.token[1]} :
                            t \in DOMAIN cache' /\ cache'[t] = cache[t]
                      /\ DOMAIN cache' = DOMAIN cache \cup {b.token[1]}
                /\ (/\ a.pc = "new" /\ b.nGet = 1
                    /\ b.token[1] \notin DOMAIN lastSet
                    /\ \E r0 \in Reqs : Rejected(req[r0]) /\ req[r0].token = b.token)
                      => ~b.hit /\ b.nUserinfo = 1 /\ b.pc = "userinfo"]_vars

\* C28 witness: the first request bore t1 and was rejected because the
\* directory knew no user, leaving the cache empty; the second bore t1 again
\* and has sent the userinfo request anew
C28_Witness ==
    /\ Rejected(req[1]) /\ req[1].token = <<tokenA>>
    /\ req[1].err = "user not found in Pydio Cells"
    /\ cache = EmptyCache
    /\ Looked(req[2], tokenA) /\ req[2].seen = "never"
    /\ req[2].pc = "userinfo" /\ req[2].nUserinfo = 1

\* the upstream calls of request r return in the end (the client's ten-second
\* timeout bounds each)
UpstreamReturns(r) ==
    WF_vars(LockUserinfoResponse(r)) /\ WF_vars(LockPydioResponse(r))

\* C29: with the cache lock granted fairly, a request whose own upstream calls
\* return reaches its end, let through or rejected, whether or not the
\* upstream calls of the other requests ever return.
C29_RequestTerminates ==
    \A r \in Reqs :
        UpstreamReturns(r) =>
            (req[r].pc # "new" ~> (Passed(req[r]) \/ Rejected(req[r])))

\* C29 witness: the second request has reached its end, stored and let
\* through, while the first is still suspended in its userinfo call
C29_Witness ==
    /\ req[1].pc = "userinfo"
    /\ Passed(req[2]) /\ req[2].nSet = 1

\* the address the request's headers claim: the first X-Forwarded-For hop,
\* without that header the X-Real-IP
HeaderAddress(r) ==
    IF r.xff # <<>> THEN Trimmed(FirstElement(r.xff)) ELSE Trimmed(r.xri)

\* C30: for a request that carries X-Forwarded-For or X-Real-IP the bypass is
\* decided by the header's address alone: the request is let through without
\* a token exactly when that address lies in a trusted entry, whether the
\* transport address is trusted or not.
C30_BypassByHeaderAddress ==
    (pout # <<>> /\ (pin.r.xff # <<>> \/ pin.r.xri # <<>>)) =>
        /\ Bypassed(Handled) = InSomeRange(HeaderAddress(pin.r), pin.trusted)
        /\ Bypassed(Handled) => Handled.clientIP = HeaderAddress(pin.r)

\* C30 witness: the transport address 8.8.8.8 is in no trusted entry, the
\* request carries no token and X-Forwarded-For 10.1.2.3, and was let through
C30_Witness ==
    /\ pout # <<>>
    /\ pin.r = HttpRequest(<<"1", "0", ".", "1", ".", "2", ".", "3">>, <<>>, <<"8", ".", "8", ".", "8", ".", "8", ":", "8", "0">>, <<>>)
    /\ ~InSomeRange(HostPortion(pin.r.remoteAddr), pin.trusted)
    /\ Bypassed(Handled)
    /\ Handled.nGet = 0 /\ Handled.nUserinfo = 0
====
